---- MODULE Spec2Model ----
(***************************************************************************)
(* The callback registry of GLFW.hpp / GLFW3.hpp: the process-wide maps of *)
(* detail::glfw_callbacks, the set_*_callback registration functions, the  *)
(* trampolines they install, and the native layer's callback slots.        *)
(***************************************************************************)
EXTENDS Integers, Sequences, FiniteSets, TLC

\* ---------------------------------------------------------------- bounds
NumWindows == 2
NumHandlers == 2
NumMonitors == 2
NumJoysticks == 2
NumWindowObjects == 2
NumWindowRefs == 2
MaxEvents == 2
NumCursorObjects == 2
NumCursors == 2
MaxCursorDestroys == 2
MaxVersionPart == 2
MaxHints == 2
MaxInitAttempts == 2

\* ------------------------------------------------------- program constants
POSITION_CHANGED == 1
SIZE_CHANGED == 2
FRAMEBUFFER_SIZE_CHANGED == 4
CONTENT_SCALE_CHANGED == 8
FOCUS_CHANGED == 16
MINIMIZE_STATE_CHANGED == 32
MAXIMIZE_STATE_CHANGED == 64
CONTENT_NEEDS_REFRESH == 128
CLOSE_REQUESTED == 256

\* An empty std::function; also what the std::nullptr_t overloads store.
nullptr == 0

\* ------------------------------------------------------------ input sets
Windows == 1..NumWindows
Handlers == 1..NumHandlers
Monitors == 1..NumMonitors
Joysticks == 0..(NumJoysticks - 1)

\* What a caller can pass to a template overload: any invocable, an empty
\* std::function included.
Callables == Handlers \cup {nullptr}

\* The window_event_type masks callers pass.
Masks == { SIZE_CHANGED,
           SIZE_CHANGED + FOCUS_CHANGED,
           POSITION_CHANGED + SIZE_CHANGED + CLOSE_REQUESTED }

\* The nine sub-kinds of the window-event family, with the bit of each.
WindowSubKinds ==
    { "WindowPos", "WindowSize", "FramebufferSize", "WindowContentScale",
      "WindowFocus", "WindowIconify", "WindowMaximize", "WindowRefresh",
      "WindowClose" }

\* The window-keyed kinds that have a map of their own.
InputKinds ==
    { "Key", "Char", "CursorPos", "CursorEnter", "MouseButton", "Scroll", "Drop" }

WindowSlots == WindowSubKinds \cup InputKinds
GlobalSlots == { "Monitor", "Error", "Joystick" }

\* A native slot holds a function pointer: NULL or one of the trampolines.
NULL == "NULL"

\* The glfw::window and glfw::window_ref objects of the program.
WindowObjects == 1..NumWindowObjects
WindowRefs == 1..NumWindowRefs

\* The glfw::cursor objects of the program and the handles glfwCreateCursor
\* and glfwCreateStandardCursor can return.
CursorObjects == 1..NumCursorObjects
CursorHandles == 1..NumCursors

\* Storage that holds no object: before construction and after destruction.
NotConstructed == [live |-> FALSE, m_handle |-> nullptr]

\* An object holding a handle.
Holding(handle) == [live |-> TRUE, m_handle |-> handle]

\* No handler is executing.
NoInvocation == [slot |-> "", id |-> 0, handler |-> nullptr, closure |-> "", outcome |-> ""]

\* ------------------------------------------------------------- arithmetic
RECURSIVE BitAnd(_, _)
BitAnd(a, b) ==
    IF a = 0 \/ b = 0 THEN 0
    ELSE (a % 2) * (b % 2) + 2 * BitAnd(a \div 2, b \div 2)

\* ------------------------------------------------------------------ state
VARIABLES
    glfw_callbacks,  \* the static maps and functions of detail::glfw_callbacks
    windowSlot,      \* native layer: per window, the pointer in each callback slot
    globalSlot,      \* native layer: the monitor, error and joystick callback slots
    lastReg,         \* history: the handler most recently passed for each slot
    lastMask,        \* history: the mask most recently passed for each window
    scenario,        \* history: the registration calls of a single-slot scenario
    lastOp,          \* the operation that produced this state
    invoked,         \* the user handler invocations that operation made
    fault,           \* whether that operation ended by a propagating exception
    nativeWindows,   \* native layer: the GLFWwindow handles of the live windows
    windowObjects,   \* the glfw::window objects: constructed or not, and m_handle
    windowRefs,      \* the glfw::window_ref objects: constructed or not, and m_handle
    movedFrom,       \* history: the window objects last used as the source of a move
    stale,           \* history: the slots last registered for a window since destroyed
    eventLog,        \* history: the events that reached a trampoline, oldest first
    callLog,         \* history: the handler invocations made, oldest first
    running,         \* the handler invocation in progress, if any
    cursorObjects,   \* the glfw::cursor objects: constructed or not, and m_handle
    createdCursors,  \* native layer: the GLFWcursor handles created so far
    cursorDestroys,  \* native layer: the glfwDestroyCursor calls made for each handle
    arguments,       \* the arguments of a call of a function without side effects
    returnValue,     \* what that call returned, once it has been made
    windowBuilders,  \* the glfw::window_builder objects: constructed or not, and m_hints
    nativeHints,     \* native layer: the value of each window hint
    createdWith,     \* history: the hint values the last window was created with
    libInstance,     \* the function-local static glfw_lib of glfw_lib::init
    nativeLibrary    \* native layer: initialised or not, init hints, calls counted

\* The window and window_ref objects and the native windows behind them.
lifetimeVars == << nativeWindows, windowObjects, windowRefs, movedFrom >>

\* The delivery history and the invocation in progress.
orderVars == << eventLog, callLog, running >>

\* The cursor objects and the native cursors behind them.
cursorVars == << cursorObjects, createdCursors, cursorDestroys >>

\* What is outside the callback registry and the window objects.
\* A call of a function without side effects.
functionVars == << arguments, returnValue >>

\* The window builders and the native window hints.
builderVars == << windowBuilders, nativeHints, createdWith >>

\* The library instance and the native library behind it.
initVars == << libInstance, nativeLibrary >>

libraryVars == << cursorVars, functionVars, builderVars, initVars >>

vars == << glfw_callbacks, windowSlot, globalSlot, lastReg, lastMask, scenario,
           lastOp, invoked, fault, lifetimeVars, stale, orderVars, libraryVars >>

error_callback == glfw_callbacks.error_callback
monitor_callback == glfw_callbacks.monitor_callback
window_callbacks == glfw_callbacks.window_callbacks
key_callbacks == glfw_callbacks.key_callbacks
char_callbacks == glfw_callbacks.char_callbacks
cursor_callbacks == glfw_callbacks.cursor_callbacks
cursor_enter_callbacks == glfw_callbacks.cursor_enter_callbacks
mouse_button_callbacks == glfw_callbacks.mouse_button_callbacks
mouse_scroll_callbacks == glfw_callbacks.mouse_scroll_callbacks
drop_callbacks == glfw_callbacks.drop_callbacks
joystick_callback == glfw_callbacks.joystick_callback

\* struct window_callback { callback; mask; }
window_callback(callback, mask) == [callback |-> callback, mask |-> mask]

\* std::unordered_map::operator[] followed by an assignment.
MapAssign(map, key, value) ==
    [k \in (DOMAIN map) \cup {key} |-> IF k = key THEN value ELSE map[k]]

\* std::unordered_map::operator[] alone: a missing key is inserted with a
\* value-initialised mapped value.
MapIndex(map, key, fresh) ==
    [k \in (DOMAIN map) \cup {key} |-> IF k \in DOMAIN map THEN map[k] ELSE fresh]

EmptyMap == [k \in {} |-> nullptr]


\* ------------------------------------------------------------ trampolines
\* What one run of a trampoline does: the handler invocations it makes, in
\* order, and whether it ends by throwing.
Returned(calls) == [calls |-> calls, fault |-> FALSE]
Threw(calls) == [calls |-> calls, fault |-> TRUE]

\* One invocation of a stored std::function with the event value built for it.
Invocation(handler, event, source) ==
    [handler |-> handler, event |-> event, source |-> source]

\* std::function::operator(): an empty target throws std::bad_function_call.
InvokeFunction(function, event, source) ==
    IF function = nullptr THEN Threw(<< >>)
    ELSE Returned(<< Invocation(function, event, source) >>)

\* A monitor trampoline that serves one monitor alone.
glfw_monitor_callback_one_monitor(glfwMonitor) ==
    IF glfwMonitor = 1
    THEN InvokeFunction(monitor_callback, "monitor_event", glfwMonitor)
    ELSE Returned(<< >>)

glfw_monitor_callback(glfwMonitor) ==
    InvokeFunction(monitor_callback, "monitor_event", glfwMonitor)

glfw_error_callback(error) ==
    InvokeFunction(error_callback, "error", error)

\* The shared body of the nine window-event trampolines: find, mask test,
\* callback test, call with window_ref{sourceWindow}.
WindowEventDispatch(sourceWindow, bit) ==
    IF /\ sourceWindow \in DOMAIN window_callbacks
       /\ BitAnd(window_callbacks[sourceWindow].mask, bit) # 0
       /\ window_callbacks[sourceWindow].callback # nullptr
    THEN InvokeFunction(window_callbacks[sourceWindow].callback, "window_ref", sourceWindow)
    ELSE Returned(<< >>)

glfw_window_pos_callback(sourceWindow) ==
    WindowEventDispatch(sourceWindow, POSITION_CHANGED)

glfw_window_size_callback(sourceWindow) ==
    WindowEventDispatch(sourceWindow, SIZE_CHANGED)

glfw_framebuffer_size_callback(sourceWindow) ==
    WindowEventDispatch(sourceWindow, FRAMEBUFFER_SIZE_CHANGED)

glfw_window_content_scale_callback(sourceWindow) ==
    WindowEventDispatch(sourceWindow, CONTENT_SCALE_CHANGED)

glfw_window_focus_callback(sourceWindow) ==
    WindowEventDispatch(sourceWindow, FOCUS_CHANGED)

glfw_window_minimize_callback(sourceWindow) ==
    WindowEventDispatch(sourceWindow, MINIMIZE_STATE_CHANGED)

glfw_window_maximize_callback(sourceWindow) ==
    WindowEventDispatch(sourceWindow, MAXIMIZE_STATE_CHANGED)

glfw_window_refresh_callback(sourceWindow) ==
    WindowEventDispatch(sourceWindow, CONTENT_NEEDS_REFRESH)

glfw_window_close_callback(sourceWindow) ==
    WindowEventDispatch(sourceWindow, CLOSE_REQUESTED)

\* A lookup that takes whatever entry the map has, not the source window's.
InputEventDispatchAnyEntry(map, event, sourceWindow) ==
    IF \E w \in DOMAIN map : map[w] # nullptr
    THEN InvokeFunction(map[CHOOSE w \in DOMAIN map : map[w] # nullptr], event, sourceWindow)
    ELSE Returned(<< >>)

\* A trampoline body that drops an event whose source is that of the event
\* before it.
InputEventDispatchCoalescing(map, event, sourceWindow) ==
    IF /\ sourceWindow \in DOMAIN map /\ map[sourceWindow] # nullptr
       /\ ~(eventLog # << >> /\ eventLog[Len(eventLog)].source = sourceWindow)
    THEN InvokeFunction(map[sourceWindow], event, sourceWindow)
    ELSE Returned(<< >>)

\* The shared body of the window-keyed input trampolines: find, callback
\* test, call with an event value that carries window_ref{sourceWindow}.
InputEventDispatch(map, event, sourceWindow) ==
    IF sourceWindow \in DOMAIN map /\ map[sourceWindow] # nullptr
    THEN InvokeFunction(map[sourceWindow], event, sourceWindow)
    ELSE Returned(<< >>)

glfw_drop_callback(sourceWindow) ==
    InputEventDispatch(drop_callbacks, "drop_event", sourceWindow)

glfw_key_callback(sourceWindow) ==
    InputEventDispatch(key_callbacks, "key_event", sourceWindow)

glfw_char_callback(sourceWindow) ==
    InputEventDispatch(char_callbacks, "char_event", sourceWindow)

glfw_cursor_callback(sourceWindow) ==
    InputEventDispatch(cursor_callbacks, "cursor_event", sourceWindow)

glfw_cursor_enter_callback(sourceWindow) ==
    InputEventDispatch(cursor_enter_callbacks, "cursor_enter_event", sourceWindow)

glfw_mouse_button_callback(sourceWindow) ==
    InputEventDispatch(mouse_button_callbacks, "mouse_button_event", sourceWindow)

glfw_mouse_scroll_callback(sourceWindow) ==
    InputEventDispatch(mouse_scroll_callbacks, "mouse_scroll_event", sourceWindow)

glfw_joystick_callback(id) ==
    IF joystick_callback # nullptr
    THEN InvokeFunction(joystick_callback, "joystick_event", id)
    ELSE Returned(<< >>)

WindowTrampolines ==
    { "glfw_window_pos_callback", "glfw_window_size_callback",
      "glfw_framebuffer_size_callback", "glfw_window_content_scale_callback",
      "glfw_window_focus_callback", "glfw_window_minimize_callback",
      "glfw_window_maximize_callback", "glfw_window_refresh_callback",
      "glfw_window_close_callback", "glfw_drop_callback", "glfw_key_callback",
      "glfw_char_callback", "glfw_cursor_callback", "glfw_cursor_enter_callback",
      "glfw_mouse_button_callback", "glfw_mouse_scroll_callback" }

\* A call through a function pointer: the function the pointer names, run on
\* the native layer's arguments.
CallPointer(pointer, source) ==
    CASE pointer = "glfw_monitor_callback" -> glfw_monitor_callback(source)
      [] pointer = "glfw_error_callback" -> glfw_error_callback(source)
      [] pointer = "glfw_window_pos_callback" -> glfw_window_pos_callback(source)
      [] pointer = "glfw_window_size_callback" -> glfw_window_size_callback(source)
      [] pointer = "glfw_framebuffer_size_callback" -> glfw_framebuffer_size_callback(source)
      [] pointer = "glfw_window_content_scale_callback" -> glfw_window_content_scale_callback(source)
      [] pointer = "glfw_window_focus_callback" -> glfw_window_focus_callback(source)
      [] pointer = "glfw_window_minimize_callback" -> glfw_window_minimize_callback(source)
      [] pointer = "glfw_window_maximize_callback" -> glfw_window_maximize_callback(source)
      [] pointer = "glfw_window_refresh_callback" -> glfw_window_refresh_callback(source)
      [] pointer = "glfw_window_close_callback" -> glfw_window_close_callback(source)
      [] pointer = "glfw_drop_callback" -> glfw_drop_callback(source)
      [] pointer = "glfw_key_callback" -> glfw_key_callback(source)
      [] pointer = "glfw_char_callback" -> glfw_char_callback(source)
      [] pointer = "glfw_cursor_callback" -> glfw_cursor_callback(source)
      [] pointer = "glfw_cursor_enter_callback" -> glfw_cursor_enter_callback(source)
      [] pointer = "glfw_mouse_button_callback" -> glfw_mouse_button_callback(source)
      [] pointer = "glfw_mouse_scroll_callback" -> glfw_mouse_scroll_callback(source)
      [] pointer = "glfw_joystick_callback" -> glfw_joystick_callback(source)


\* ------------------------------------------------------------ native layer
\* glfwSet<Slot>Callback(window, pointer): the window's slot takes the pointer.
glfwSetWindowSlot(slots, window, slot, pointer) ==
    [slots EXCEPT ![window][slot] = pointer]

\* glfwSetMonitorCallback, glfwSetErrorCallback, glfwSetJoystickCallback.
glfwSetGlobalSlot(slots, slot, pointer) ==
    [slots EXCEPT ![slot] = pointer]

\* ------------------------------------------------- history and exploration
\* A slot is a (kind, identity) pair; the window-event family is one slot per
\* window and the three global handlers have identity 0.
Touched == DOMAIN lastReg

\* Exploration bound: the slots are separate variables of the program, and
\* one behaviour of the model registers on any two of them, not on more.
SlotAvailable(slot, id) ==
    \A a, b \in Touched : a # b => << slot, id >> \in {a, b}

\* The one thread is either in application code or inside a trampoline that
\* the application or the native event pump has called and that has not yet
\* returned to it.
InTrampoline == lastOp.op \in { "trampoline", "native" }

\* History: the registration calls made so far, the oldest first, as long as
\* the behaviour is a single-slot scenario (every call so far is on the same
\* slot, and there are at most three); `whole` is false once it is not.
Registration(slot, id, callback, mask) ==
    [slot |-> slot, id |-> id, callback |-> callback, mask |-> mask]

SingleSlot(calls) ==
    /\ Len(calls) <= 3
    /\ \A i, j \in DOMAIN calls : calls[i].slot = calls[j].slot /\ calls[i].id = calls[j].id

Extended(call) ==
    IF scenario.whole /\ SingleSlot(Append(scenario.calls, call))
    THEN [calls |-> Append(scenario.calls, call), whole |-> TRUE]
    ELSE [calls |-> << >>, whole |-> FALSE]

\* What every registration call leaves behind besides the registry itself.
\* The handlers of this model make no registry calls, so registration runs in
\* application code.
RegistersMasked(op, slot, id, callback, mask) ==
    /\ ~InTrampoline
    /\ SlotAvailable(slot, id)
    /\ lastReg' = MapAssign(lastReg, << slot, id >>, callback)
    /\ scenario' = Extended(Registration(slot, id, callback, mask))
    /\ lastOp' = [op |-> op, slot |-> slot, id |-> id]
    /\ invoked' = << >>
    /\ fault' = FALSE
    /\ stale' = stale \ { << slot, id >> }
    /\ UNCHANGED << lifetimeVars, libraryVars, orderVars >>

Registers(op, slot, id, callback) == RegistersMasked(op, slot, id, callback, 0)

\* ------------------------------------------------------------ registration
\* The template overload and the std::nullptr_t overload of one input kind.
SetInputCallback(field, slot, pointer, window, callback) ==
    /\ glfw_callbacks' = [glfw_callbacks EXCEPT ![field] = MapAssign(@, window, callback)]
    /\ windowSlot' = glfwSetWindowSlot(windowSlot, window, slot, pointer)
    /\ UNCHANGED << globalSlot, lastMask >>

\* A registration that inserts without replacing (unordered_map::emplace).
set_key_callback_emplace(window, callback) ==
    /\ Registers("set_key_callback", "Key", window, callback)
    /\ glfw_callbacks' = [glfw_callbacks EXCEPT !.key_callbacks = MapIndex(@, window, callback)]
    /\ windowSlot' = glfwSetWindowSlot(windowSlot, window, "Key", "glfw_key_callback")
    /\ UNCHANGED << globalSlot, lastMask >>

set_key_callback(window, callback) ==
    /\ Registers("set_key_callback", "Key", window, callback)
    /\ SetInputCallback("key_callbacks", "Key", "glfw_key_callback", window, callback)

\* The map without the entry of key (unordered_map::erase).
MapErase(map, key) == [k \in DOMAIN map \ { key } |-> map[k]]

\* A clear that removes the window's entry from the map.
set_key_callback_erase(window) ==
    /\ Registers("set_key_callback(nullptr)", "Key", window, nullptr)
    /\ glfw_callbacks' = [glfw_callbacks EXCEPT !.key_callbacks = MapErase(@, window)]
    /\ windowSlot' = glfwSetWindowSlot(windowSlot, window, "Key", NULL)
    /\ UNCHANGED << globalSlot, lastMask >>

set_key_callback_nullptr(window) ==
    /\ Registers("set_key_callback(nullptr)", "Key", window, nullptr)
    /\ SetInputCallback("key_callbacks", "Key", NULL, window, nullptr)

set_char_callback(window, callback) ==
    /\ Registers("set_char_callback", "Char", window, callback)
    /\ SetInputCallback("char_callbacks", "Char", "glfw_char_callback", window, callback)

set_char_callback_nullptr(window) ==
    /\ Registers("set_char_callback(nullptr)", "Char", window, nullptr)
    /\ SetInputCallback("char_callbacks", "Char", NULL, window, nullptr)

set_cursor_callback(window, callback) ==
    /\ Registers("set_cursor_callback", "CursorPos", window, callback)
    /\ SetInputCallback("cursor_callbacks", "CursorPos", "glfw_cursor_callback", window, callback)

set_cursor_callback_nullptr(window) ==
    /\ Registers("set_cursor_callback(nullptr)", "CursorPos", window, nullptr)
    /\ SetInputCallback("cursor_callbacks", "CursorPos", NULL, window, nullptr)

set_cursor_enter_callback(window, callback) ==
    /\ Registers("set_cursor_enter_callback", "CursorEnter", window, callback)
    /\ SetInputCallback("cursor_enter_callbacks", "CursorEnter",
                        "glfw_cursor_enter_callback", window, callback)

set_cursor_enter_callback_nullptr(window) ==
    /\ Registers("set_cursor_enter_callback(nullptr)", "CursorEnter", window, nullptr)
    /\ SetInputCallback("cursor_enter_callbacks", "CursorEnter", NULL, window, nullptr)

set_mouse_button_callback(window, callback) ==
    /\ Registers("set_mouse_button_callback", "MouseButton", window, callback)
    /\ SetInputCallback("mouse_button_callbacks", "MouseButton",
                        "glfw_mouse_button_callback", window, callback)

set_mouse_button_callback_nullptr(window) ==
    /\ Registers("set_mouse_button_callback(nullptr)", "MouseButton", window, nullptr)
    /\ SetInputCallback("mouse_button_callbacks", "MouseButton", NULL, window, nullptr)

set_mouse_scroll_callback(window, callback) ==
    /\ Registers("set_mouse_scroll_callback", "Scroll", window, callback)
    /\ SetInputCallback("mouse_scroll_callbacks", "Scroll",
                        "glfw_mouse_scroll_callback", window, callback)

set_mouse_scroll_callback_nullptr(window) ==
    /\ Registers("set_mouse_scroll_callback(nullptr)", "Scroll", window, nullptr)
    /\ SetInputCallback("mouse_scroll_callbacks", "Scroll", NULL, window, nullptr)

set_drop_callback(window, callback) ==
    /\ Registers("set_drop_callback", "Drop", window, callback)
    /\ SetInputCallback("drop_callbacks", "Drop", "glfw_drop_callback", window, callback)

set_drop_callback_nullptr(window) ==
    /\ Registers("set_drop_callback(nullptr)", "Drop", window, nullptr)
    /\ SetInputCallback("drop_callbacks", "Drop", NULL, window, nullptr)

\* The three handlers that are one process-wide std::function each.
SetGlobalCallback(field, slot, pointer, callback) ==
    /\ glfw_callbacks' = [glfw_callbacks EXCEPT ![field] = callback]
    /\ globalSlot' = glfwSetGlobalSlot(globalSlot, slot, pointer)
    /\ UNCHANGED << windowSlot, lastMask >>

set_joystick_callback(callback) ==
    /\ Registers("set_joystick_callback", "Joystick", 0, callback)
    /\ SetGlobalCallback("joystick_callback", "Joystick", "glfw_joystick_callback", callback)

set_joystick_callback_nullptr ==
    /\ Registers("set_joystick_callback(nullptr)", "Joystick", 0, nullptr)
    /\ SetGlobalCallback("joystick_callback", "Joystick", NULL, nullptr)

monitor_events_set_event_callback(callback) ==
    /\ Registers("monitor_events::set_event_callback", "Monitor", 0, callback)
    /\ SetGlobalCallback("monitor_callback", "Monitor", "glfw_monitor_callback", callback)

\* A clear that resets the native slot and keeps the stored handler.
monitor_events_set_event_callback_nullptr_slot_only ==
    /\ Registers("monitor_events::set_event_callback(nullptr)", "Monitor", 0, nullptr)
    /\ globalSlot' = glfwSetGlobalSlot(globalSlot, "Monitor", NULL)
    /\ UNCHANGED << glfw_callbacks, windowSlot, lastMask >>

monitor_events_set_event_callback_nullptr ==
    /\ Registers("monitor_events::set_event_callback(nullptr)", "Monitor", 0, nullptr)
    /\ SetGlobalCallback("monitor_callback", "Monitor", NULL, nullptr)

errors_set_callback(callback) ==
    /\ Registers("errors::set_callback", "Error", 0, callback)
    /\ SetGlobalCallback("error_callback", "Error", "glfw_error_callback", callback)

errors_set_callback_nullptr ==
    /\ Registers("errors::set_callback(nullptr)", "Error", 0, nullptr)
    /\ SetGlobalCallback("error_callback", "Error", NULL, nullptr)

\* The test each of the nine glfwSetWindow*Callback calls of the masked
\* registration makes on the mask: (mask & BIT) == 1.
MaskSelects(mask, bit) == BitAnd(mask, bit) = 1

\* The pointer the masked registration passes for one sub-kind.
SelectPointer(mask, bit, pointer) ==
    IF MaskSelects(mask, bit) THEN pointer ELSE NULL

\* The nine glfwSetWindow*Callback calls of the masked registration.
InstallWindowEvents(slots, window, mask) ==
    [slots EXCEPT ![window] =
        [s \in WindowSlots |->
            CASE s = "WindowPos" ->
                    SelectPointer(mask, POSITION_CHANGED, "glfw_window_pos_callback")
              [] s = "WindowSize" ->
                    SelectPointer(mask, SIZE_CHANGED, "glfw_window_size_callback")
              [] s = "FramebufferSize" ->
                    SelectPointer(mask, FRAMEBUFFER_SIZE_CHANGED, "glfw_framebuffer_size_callback")
              [] s = "WindowContentScale" ->
                    SelectPointer(mask, CONTENT_SCALE_CHANGED, "glfw_window_content_scale_callback")
              [] s = "WindowFocus" ->
                    SelectPointer(mask, FOCUS_CHANGED, "glfw_window_focus_callback")
              [] s = "WindowIconify" ->
                    SelectPointer(mask, MINIMIZE_STATE_CHANGED, "glfw_window_minimize_callback")
              [] s = "WindowMaximize" ->
                    SelectPointer(mask, MAXIMIZE_STATE_CHANGED, "glfw_window_maximize_callback")
              [] s = "WindowRefresh" ->
                    SelectPointer(mask, CONTENT_NEEDS_REFRESH, "glfw_window_refresh_callback")
              [] s = "WindowClose" ->
                    SelectPointer(mask, CLOSE_REQUESTED, "glfw_window_close_callback")
              [] OTHER -> @[s]]]

\* The nine glfwSetWindow*Callback(window, nullptr) calls of the clearing overload.
\* A clear that leaves the window's native slots as they were.
UninstallNothing(slots, window) == slots

\* A clear that sets every native slot of the window to null, the key slot
\* among them.
UninstallEverySlot(slots, window) ==
    [slots EXCEPT ![window] = [s \in WindowSlots |-> NULL]]

UninstallWindowEvents(slots, window) ==
    [slots EXCEPT ![window] =
        [s \in WindowSlots |-> IF s \in WindowSubKinds THEN NULL ELSE @[s]]]

\* A masked registration that adds the new mask's bits to the stored mask.
window_events_set_event_callback_merging(window, callback, mask) ==
    /\ RegistersMasked("window_events::set_event_callback", "Window", window, callback, mask)
    /\ glfw_callbacks' =
           [glfw_callbacks EXCEPT !.window_callbacks =
               LET old == MapIndex(@, window, window_callback(nullptr, 0))[window].mask
               IN  MapAssign(@, window,
                       window_callback(callback, old + mask - BitAnd(old, mask)))]
    /\ windowSlot' = InstallWindowEvents(windowSlot, window, mask)
    /\ lastMask' = MapAssign(lastMask, window, mask)
    /\ UNCHANGED globalSlot

window_events_set_event_callback(window, callback, mask) ==
    /\ RegistersMasked("window_events::set_event_callback", "Window", window, callback, mask)
    /\ glfw_callbacks' =
           [glfw_callbacks EXCEPT !.window_callbacks =
               MapAssign(@, window, window_callback(callback, mask))]
    /\ windowSlot' = InstallWindowEvents(windowSlot, window, mask)
    /\ lastMask' = MapAssign(lastMask, window, mask)
    /\ UNCHANGED globalSlot

\* window_callbacks[window].callback = nullptr: a missing entry is inserted
\* value-initialised (empty callback, mask 0); a present entry keeps its mask.
window_events_set_event_callback_nullptr(window) ==
    /\ Registers("window_events::set_event_callback(nullptr)", "Window", window, nullptr)
    /\ glfw_callbacks' =
           [glfw_callbacks EXCEPT !.window_callbacks =
               LET entry == MapIndex(@, window, window_callback(nullptr, 0))
               IN  MapAssign(entry, window, [entry[window] EXCEPT !.callback = nullptr])]
    /\ windowSlot' = UninstallWindowEvents(windowSlot, window)
    /\ UNCHANGED << globalSlot, lastMask >>


\* ---------------------------------------------------------------- dispatch
\* The trampoline each registration function passes for its slot.
TrampolineOf(slot) ==
    CASE slot = "WindowPos" -> "glfw_window_pos_callback"
      [] slot = "WindowSize" -> "glfw_window_size_callback"
      [] slot = "FramebufferSize" -> "glfw_framebuffer_size_callback"
      [] slot = "WindowContentScale" -> "glfw_window_content_scale_callback"
      [] slot = "WindowFocus" -> "glfw_window_focus_callback"
      [] slot = "WindowIconify" -> "glfw_window_minimize_callback"
      [] slot = "WindowMaximize" -> "glfw_window_maximize_callback"
      [] slot = "WindowRefresh" -> "glfw_window_refresh_callback"
      [] slot = "WindowClose" -> "glfw_window_close_callback"
      [] slot = "Key" -> "glfw_key_callback"
      [] slot = "Char" -> "glfw_char_callback"
      [] slot = "CursorPos" -> "glfw_cursor_callback"
      [] slot = "CursorEnter" -> "glfw_cursor_enter_callback"
      [] slot = "MouseButton" -> "glfw_mouse_button_callback"
      [] slot = "Scroll" -> "glfw_mouse_scroll_callback"
      [] slot = "Drop" -> "glfw_drop_callback"
      [] slot = "Monitor" -> "glfw_monitor_callback"
      [] slot = "Error" -> "glfw_error_callback"
      [] slot = "Joystick" -> "glfw_joystick_callback"

\* The window_event_type bit of each window sub-kind.
SubKindBit(slot) ==
    CASE slot = "WindowPos" -> POSITION_CHANGED
      [] slot = "WindowSize" -> SIZE_CHANGED
      [] slot = "FramebufferSize" -> FRAMEBUFFER_SIZE_CHANGED
      [] slot = "WindowContentScale" -> CONTENT_SCALE_CHANGED
      [] slot = "WindowFocus" -> FOCUS_CHANGED
      [] slot = "WindowIconify" -> MINIMIZE_STATE_CHANGED
      [] slot = "WindowMaximize" -> MAXIMIZE_STATE_CHANGED
      [] slot = "WindowRefresh" -> CONTENT_NEEDS_REFRESH
      [] slot = "WindowClose" -> CLOSE_REQUESTED

\* The identities and codes the native layer passes to the global trampolines.
ErrorCodes == { 65537 }

Sources(slot) ==
    CASE slot \in WindowSlots -> Windows
      [] slot = "Monitor" -> Monitors
      [] slot = "Error" -> ErrorCodes
      [] slot = "Joystick" -> Joysticks

\* The slot a kind's registrations go to: the nine window sub-kinds share the
\* one entry of their window, the global handlers have identity 0.
RegSlot(slot) == IF slot \in WindowSubKinds THEN "Window" ELSE slot
RegId(slot, source) == IF slot \in GlobalSlots THEN 0 ELSE source

\* A trampoline that looks its handler up with operator[], which inserts an
\* empty entry for a window that has none.
ObservedInserting(op, slot, source, result) ==
    /\ ~InTrampoline
    /\ lastOp' = [op |-> op, slot |-> slot, id |-> source]
    /\ invoked' = result.calls
    /\ fault' = result.fault
    /\ glfw_callbacks' = IF slot = "Key"
                         THEN [glfw_callbacks EXCEPT !.key_callbacks = MapIndex(@, source, nullptr)]
                         ELSE glfw_callbacks
    /\ UNCHANGED << windowSlot, globalSlot, lastReg, lastMask, scenario >>
    /\ UNCHANGED << lifetimeVars, libraryVars, stale, orderVars >>

\* What a trampoline run or an event delivery leaves behind: it reads the
\* registry and the handlers of this model make no registry calls.
Observed(op, slot, source, result) ==
    /\ ~InTrampoline
    /\ lastOp' = [op |-> op, slot |-> slot, id |-> source]
    /\ invoked' = result.calls
    /\ fault' = result.fault
    /\ UNCHANGED << glfw_callbacks, windowSlot, globalSlot, lastReg, lastMask, scenario >>
    /\ UNCHANGED << lifetimeVars, libraryVars, stale, orderVars >>

\* dispatch: the trampoline of a kind runs, whether or not it is installed.
TrampolineRuns(slot, source) ==
    Observed("trampoline", slot, source, CallPointer(TrampolineOf(slot), source))

\* The pointer the native layer holds for a slot of a source.
Installed(slot, source) ==
    IF slot \in WindowSlots THEN windowSlot[source][slot] ELSE globalSlot[slot]

\* The native layer recognises an event: it calls the pointer installed in the
\* slot, and does nothing when the slot is null.
NativeDelivery(slot, source) ==
    IF Installed(slot, source) = NULL THEN Returned(<< >>)
    ELSE CallPointer(Installed(slot, source), source)

NativeEvent(slot, source) ==
    Observed("native", slot, source, NativeDelivery(slot, source))

\* Control comes back to the application: the trampoline has returned, or its
\* exception has propagated to the call site.
Return ==
    /\ InTrampoline
    /\ lastOp' = [op |-> "return", slot |-> "", id |-> 0]
    /\ invoked' = << >>
    /\ fault' = FALSE
    /\ UNCHANGED << glfw_callbacks, windowSlot, globalSlot, lastReg, lastMask, scenario >>
    /\ UNCHANGED << lifetimeVars, libraryVars, stale, orderVars >>

\* ------------------------------------------------------------ specification
\* No call made.
NoCall == << >>

\* enum class init_hint_type
init_hint_type == { "JOYSTICK_HAT_BUTTONS", "COCOA_CHDIR_RESOURCES", "COCOA_MENUBAR" }

\* The glfw::window_builder objects of the program. Exploration bound: a
\* builder is its list of hints and nothing else, and the program has one
\* builder at a time, which it may destroy to make another.
Builders == { 1 }

\* Storage that holds no window_builder.
NoBuilder == [live |-> FALSE, m_hints |-> << >>]

\* The window hints a program gives, here two of the boolean ones, and the
\* values glfwDefaultWindowHints gives them.
HintNames == { "RESIZABLE", "VISIBLE" }
GLFW_TRUE == 1
GLFW_FALSE == 0
DefaultWindowHints == [h \in HintNames |-> GLFW_TRUE]

\* The program after construction of its static objects, before any call.
InitProgram ==
    /\ glfw_callbacks =
           [ error_callback |-> nullptr,
             monitor_callback |-> nullptr,
             window_callbacks |-> EmptyMap,
             key_callbacks |-> EmptyMap,
             char_callbacks |-> EmptyMap,
             cursor_callbacks |-> EmptyMap,
             cursor_enter_callbacks |-> EmptyMap,
             mouse_button_callbacks |-> EmptyMap,
             mouse_scroll_callbacks |-> EmptyMap,
             drop_callbacks |-> EmptyMap,
             joystick_callback |-> nullptr ]
    /\ windowSlot = [w \in Windows |-> [s \in WindowSlots |-> NULL]]
    /\ globalSlot = [s \in GlobalSlots |-> NULL]
    /\ lastReg = EmptyMap
    /\ lastMask = EmptyMap
    /\ scenario = [calls |-> << >>, whole |-> TRUE]
    /\ lastOp = [op |-> "init", slot |-> "", id |-> 0]
    /\ invoked = << >>
    /\ fault = FALSE
    /\ nativeWindows = {}
    /\ windowObjects = [o \in WindowObjects |-> NotConstructed]
    /\ windowRefs = [r \in WindowRefs |-> NotConstructed]
    /\ movedFrom = {}
    /\ stale = {}
    /\ eventLog = << >>
    /\ callLog = << >>
    /\ running = NoInvocation
    /\ cursorObjects = [c \in CursorObjects |-> NotConstructed]
    /\ createdCursors = {}
    /\ cursorDestroys = [h \in CursorHandles |-> 0]
    /\ returnValue = NoCall
    /\ windowBuilders = [b \in Builders |-> NoBuilder]
    /\ nativeHints = DefaultWindowHints
    /\ createdWith = NoCall
    /\ libInstance = "not constructed"
    /\ nativeLibrary = [ initialised |-> FALSE,
                         hints |-> [h \in init_hint_type |-> TRUE],
                         attempts |-> 0, inits |-> 0, terminates |-> 0 ]

Init ==
    /\ InitProgram
    /\ arguments = NoCall

\* The kinds that have one handler per window in a map of their own, and the
\* joystick handler: namespace input and window_events::set_drop_callback.
InputSlots == InputKinds \cup { "Joystick" }

\* The kinds whose storage both headers declare: the error and monitor
\* handlers, the window-event family and the key map.
EventSlots == WindowSubKinds \cup { "Key", "Monitor", "Error" }

InputRegistration ==
    \/ \E w \in Windows, cb \in Callables : set_key_callback(w, cb)
    \/ \E w \in Windows : set_key_callback_nullptr(w)
    \/ \E w \in Windows, cb \in Callables : set_char_callback(w, cb)
    \/ \E w \in Windows : set_char_callback_nullptr(w)
    \/ \E w \in Windows, cb \in Callables : set_cursor_callback(w, cb)
    \/ \E w \in Windows : set_cursor_callback_nullptr(w)
    \/ \E w \in Windows, cb \in Callables : set_cursor_enter_callback(w, cb)
    \/ \E w \in Windows : set_cursor_enter_callback_nullptr(w)
    \/ \E w \in Windows, cb \in Callables : set_mouse_button_callback(w, cb)
    \/ \E w \in Windows : set_mouse_button_callback_nullptr(w)
    \/ \E w \in Windows, cb \in Callables : set_mouse_scroll_callback(w, cb)
    \/ \E w \in Windows : set_mouse_scroll_callback_nullptr(w)
    \/ \E w \in Windows, cb \in Callables : set_drop_callback(w, cb)
    \/ \E w \in Windows : set_drop_callback_nullptr(w)
    \/ \E cb \in Callables : set_joystick_callback(cb)
    \/ set_joystick_callback_nullptr

EventRegistration ==
    \/ \E cb \in Callables : monitor_events_set_event_callback(cb)
    \/ monitor_events_set_event_callback_nullptr
    \/ \E w \in Windows, cb \in Callables, mask \in Masks :
           window_events_set_event_callback(w, cb, mask)
    \/ \E w \in Windows : window_events_set_event_callback_nullptr(w)
    \/ \E w \in Windows, cb \in Callables : set_key_callback(w, cb)
    \/ \E w \in Windows : set_key_callback_nullptr(w)
    \/ \E cb \in Callables : errors_set_callback(cb)
    \/ errors_set_callback_nullptr

\* The trampolines of `called` are called, by whatever caller; the native
\* layer delivers the events of `slots`.
Dispatch(called, slots) ==
    \/ \E slot \in called :
           \E source \in Sources(slot) : TrampolineRuns(slot, source)
    \/ \E slot \in slots :
           \E source \in Sources(slot) : NativeEvent(slot, source)
    \/ Return

NextInput == InputRegistration \/ Dispatch(WindowSlots \cup GlobalSlots, InputSlots)

NextEvents == EventRegistration \/ Dispatch(EventSlots, EventSlots)

Next == NextInput \/ NextEvents

\* The whole registry.
Spec == Init /\ [][Next]_vars

\* The registry of a program that registers the single-kind handlers alone.
SpecInput == Init /\ [][NextInput]_vars

\* The registry of a program that registers error, monitor, window-event and
\* key handlers alone.
SpecEvents == Init /\ [][NextEvents]_vars


\* ------------------------------------------------------------------ claims
TrampolineRan(slot, source) ==
    lastOp.op = "trampoline" /\ lastOp.slot = slot /\ lastOp.id = source

Delivered(slot, source) ==
    lastOp.op = "native" /\ lastOp.slot = slot /\ lastOp.id = source

Dispatched(slot, source) == TrampolineRan(slot, source) \/ Delivered(slot, source)

EverRegistered(slot, source) ==
    << RegSlot(slot), RegId(slot, source) >> \in Touched

LastRegistered(slot, source) == lastReg[<< RegSlot(slot), RegId(slot, source) >>]

\* The registration calls of a single-slot scenario, as the arguments they had.
ScenarioIs(calls) == scenario.whole /\ scenario.calls = calls

\* C1: last write wins. For every window and every window-keyed kind, when the
\* handler most recently registered for the slot is a non-empty H2, whatever
\* was registered there before and whatever happened on other slots, every
\* dispatch for the slot invokes H2 and nothing else, and never twice.
C1_LastWriteWins ==
    \A slot \in WindowSlots : \A w \in Windows :
        ( /\ Dispatched(slot, w)
          /\ EverRegistered(slot, w)
          /\ LastRegistered(slot, w) # nullptr )
        => /\ \A i \in DOMAIN invoked : invoked[i].handler = LastRegistered(slot, w)
           /\ Len(invoked) <= 1
           /\ (slot \in InputKinds => Len(invoked) = 1)

\* H1 then H2 were registered for the key slot of a window, a key event was
\* dispatched, and H2 alone ran.
C1_Witness ==
    \E w \in Windows : \E h1, h2 \in Handlers :
        /\ h1 # h2
        /\ ScenarioIs(<< Registration("Key", w, h1, 0), Registration("Key", w, h2, 0) >>)
        /\ Delivered("Key", w)
        /\ invoked = << Invocation(h2, "key_event", w) >>

\* C2: for a kind and an identity that no registration call was ever made for,
\* a run of the kind's trampoline invokes no user handler.
C2_UnregisteredDispatchInvokesNothing ==
    \A slot \in WindowSlots \cup GlobalSlots : \A source \in Sources(slot) :
        (TrampolineRan(slot, source) /\ ~EverRegistered(slot, source))
        => invoked = << >>

\* The char trampoline ran for a window that never had a char handler while
\* another window has one, and nothing was invoked.
C2_Witness ==
    \E w, other \in Windows :
        /\ w # other
        /\ TrampolineRan("Char", w)
        /\ ~EverRegistered("Char", w)
        /\ EverRegistered("Char", other)
        /\ LastRegistered("Char", other) # nullptr
        /\ invoked = << >>


\* The map a window-keyed input kind is stored in.
RegistryMap(slot) ==
    CASE slot = "Key" -> key_callbacks
      [] slot = "Char" -> char_callbacks
      [] slot = "CursorPos" -> cursor_callbacks
      [] slot = "CursorEnter" -> cursor_enter_callbacks
      [] slot = "MouseButton" -> mouse_button_callbacks
      [] slot = "Scroll" -> mouse_scroll_callbacks
      [] slot = "Drop" -> drop_callbacks

\* The handler the registry holds for a kind and an identity, empty when the
\* map has no entry.
StoredHandler(slot, source) ==
    CASE slot \in WindowSubKinds ->
            IF source \in DOMAIN window_callbacks
            THEN window_callbacks[source].callback ELSE nullptr
      [] slot \in InputKinds ->
            IF source \in DOMAIN RegistryMap(slot)
            THEN RegistryMap(slot)[source] ELSE nullptr
      [] slot = "Monitor" -> monitor_callback
      [] slot = "Error" -> error_callback
      [] slot = "Joystick" -> joystick_callback

\* The registration call that just returned was the nullptr overload for the
\* slot's entry.
JustCleared(slot, source) ==
    /\ lastOp.slot = RegSlot(slot)
    /\ lastOp.id = RegId(slot, source)
    /\ lastOp.op \in { "set_key_callback(nullptr)",
                       "window_events::set_event_callback(nullptr)",
                       "monitor_events::set_event_callback(nullptr)",
                       "errors::set_callback(nullptr)" }

\* C3: registering the empty handler. When the nullptr overload returns, the
\* stored handler of the slot is empty and its native slot is null; for the
\* window-event family all nine native slots of the window are null. While the
\* empty handler is the slot's latest registration every dispatch invokes no
\* handler, and for the window-keyed kinds it returns normally.
C3_EmptyRegistrationClears ==
    \A slot \in EventSlots : \A source \in Sources(slot) :
        /\ JustCleared(slot, source)
           => /\ StoredHandler(slot, source) = nullptr
              /\ Installed(slot, source) = NULL
        /\ ( /\ Dispatched(slot, source)
             /\ EverRegistered(slot, source)
             /\ LastRegistered(slot, source) = nullptr )
           => /\ invoked = << >>
              /\ slot \in WindowSlots => ~fault

\* A handler was registered for positions, sizes and close requests of a
\* window and then cleared; a position event arrives and nothing runs, all
\* nine native slots being null.
C3_Witness ==
    \E w \in Windows : \E h \in Handlers :
        /\ ScenarioIs(<< Registration("Window", w, h,
                             POSITION_CHANGED + SIZE_CHANGED + CLOSE_REQUESTED),
                         Registration("Window", w, nullptr, 0) >>)
        /\ \A s \in WindowSubKinds : windowSlot[w][s] = NULL
        /\ Delivered("WindowPos", w)
        /\ invoked = << >>
        /\ ~fault

\* The latest registration of the window-event family for a window was
\* callback with mask.
MaskedAs(w, callback, mask) ==
    /\ << "Window", w >> \in Touched
    /\ lastReg[<< "Window", w >>] = callback
    /\ callback # nullptr
    /\ lastMask[w] = mask

\* C4: masked dispatch. When the latest registration for a window is a
\* non-empty H with mask M, a run of a sub-kind's trampoline for that window
\* invokes H once if the sub-kind's bit is in M and invokes nothing otherwise;
\* H and M are those of the latest registration alone, so a sub-kind of an
\* earlier, wider mask that the latest mask lacks is no longer dispatched.
C4_MaskedDispatch ==
    \A w \in Windows : \A slot \in WindowSubKinds :
        \A h \in Handlers : \A m \in Masks :
            (TrampolineRan(slot, w) /\ MaskedAs(w, h, m))
            => invoked = IF BitAnd(m, SubKindBit(slot)) # 0
                         THEN << Invocation(h, "window_ref", w) >>
                         ELSE << >>

\* Sizes and focus were registered, then sizes alone: the focus trampoline
\* runs and invokes nothing.
C4_Witness ==
    \E w \in Windows : \E h1, h2 \in Handlers :
        /\ ScenarioIs(<< Registration("Window", w, h1, SIZE_CHANGED + FOCUS_CHANGED),
                         Registration("Window", w, h2, SIZE_CHANGED) >>)
        /\ TrampolineRan("WindowFocus", w)
        /\ invoked = << >>

\* C5: end-to-end masked delivery. The native layer delivers an event only
\* through the pointer installed in the window's slot; after a registration of
\* H with mask M the events of the sub-kinds in M reach H once each and the
\* others reach nothing.
C5_EndToEndMaskedDelivery ==
    \A w \in Windows : \A slot \in WindowSubKinds :
        \A h \in Handlers : \A m \in Masks :
            (Delivered(slot, w) /\ MaskedAs(w, h, m))
            => invoked = IF BitAnd(m, SubKindBit(slot)) # 0
                         THEN << Invocation(h, "window_ref", w) >>
                         ELSE << >>

\* C6: installation rule. When the masked registration returns, each of the
\* window's nine native slots holds the sub-kind's trampoline if the sub-kind's
\* bit is in the mask and is null otherwise.
C6_InstallationRule ==
    \A w \in Windows : \A h \in Handlers : \A m \in Masks :
        ( /\ lastOp = [op |-> "window_events::set_event_callback",
                       slot |-> "Window", id |-> w]
          /\ MaskedAs(w, h, m) )
        => \A slot \in WindowSubKinds :
               windowSlot[w][slot] = IF BitAnd(m, SubKindBit(slot)) # 0
                                     THEN TrampolineOf(slot) ELSE NULL


\* The latest registration for the kind and the window asks for handler h to
\* receive the kind's events: a non-empty h, and for a window sub-kind a mask
\* holding the sub-kind's bit.
RegisteredFor(slot, w, h) ==
    /\ EverRegistered(slot, w)
    /\ LastRegistered(slot, w) = h
    /\ h # nullptr
    /\ slot \in WindowSubKinds => BitAnd(lastMask[w], SubKindBit(slot)) # 0

\* The handler invocations of the last dispatch are one call of h for source.
InvokedOnce(h, source) ==
    /\ Len(invoked) = 1
    /\ invoked[1].handler = h
    /\ invoked[1].source = source

\* C7: identity isolation for windows. With H registered for a kind on
\* windowA, each native event of that kind for windowA invokes H exactly once
\* with windowA as the event's window; a native event of the kind for a window
\* that never had a registration invokes nothing.
C7_WindowIdentityIsolation ==
    \A slot \in WindowSubKinds \cup { "Key" } : \A w \in Windows :
        /\ \A h \in Handlers :
               (Delivered(slot, w) /\ RegisteredFor(slot, w, h)) => InvokedOnce(h, w)
        /\ (Delivered(slot, w) /\ ~EverRegistered(slot, w)) => invoked = << >>

\* The kinds of this specification whose registration carries no mask.
UnmaskedSlots == { "Key", "Monitor", "Error" }

\* C8: two states per slot. The registry holds for every kind and identity the
\* handler of the most recent registration call, and the empty handler when
\* there was none or the most recent one passed the empty handler. For the
\* kinds registered without a mask an event that arrives while a handler is
\* held invokes that handler exactly once, whatever was registered before,
\* and an event that arrives while none is held invokes nothing; so after
\* H1, empty, H2 one event invokes H2 once and H1 never.
C8_TwoStateMachine ==
    \A slot \in EventSlots : \A source \in Sources(slot) :
        /\ StoredHandler(slot, source) =
               IF EverRegistered(slot, source) THEN LastRegistered(slot, source)
               ELSE nullptr
        /\ (slot \in UnmaskedSlots /\ Delivered(slot, source))
           => IF StoredHandler(slot, source) # nullptr
              THEN InvokedOnce(StoredHandler(slot, source), source)
              ELSE invoked = << >>

\* H1, the empty handler and H2 were registered for monitor events in that
\* order; a monitor event arrives and invokes H2 once.
C8_Witness ==
    \E m \in Monitors : \E h1, h2 \in Handlers :
        /\ h1 # h2
        /\ ScenarioIs(<< Registration("Monitor", 0, h1, 0),
                         Registration("Monitor", 0, nullptr, 0),
                         Registration("Monitor", 0, h2, 0) >>)
        /\ Delivered("Monitor", m)
        /\ invoked = << Invocation(h2, "monitor_event", m) >>

\* The native slots before any registration.
NoneInstalled == [w \in Windows |-> [s \in WindowSlots |-> NULL]]

\* C9: idempotence. After the same non-empty handler (and mask) was registered
\* twice in a row for a slot, the registry and the native slots are what one
\* registration leaves, and each native event that matches the registration
\* invokes the handler exactly once.
C9_DoubleRegistrationIdempotent ==
    \A w \in Windows : \A h \in Handlers :
        /\ ScenarioIs(<< Registration("Key", w, h, 0), Registration("Key", w, h, 0) >>)
           => /\ key_callbacks = MapAssign(EmptyMap, w, h)
              /\ windowSlot = glfwSetWindowSlot(NoneInstalled, w, "Key", "glfw_key_callback")
              /\ Delivered("Key", w) => InvokedOnce(h, w)
        /\ \A m \in Masks :
               ScenarioIs(<< Registration("Window", w, h, m),
                             Registration("Window", w, h, m) >>)
               => /\ window_callbacks = MapAssign(EmptyMap, w, window_callback(h, m))
                  /\ windowSlot = InstallWindowEvents(NoneInstalled, w, m)
                  /\ \A slot \in WindowSubKinds :
                         (Delivered(slot, w) /\ BitAnd(m, SubKindBit(slot)) # 0)
                         => InvokedOnce(h, w)

\* The registry has nothing to call for the kind and the identity: no entry,
\* an empty stored handler, or a stored mask without the sub-kind's bit.
NothingToCall(slot, source) ==
    \/ StoredHandler(slot, source) = nullptr
    \/ /\ slot \in WindowSubKinds
       /\ source \in DOMAIN window_callbacks
       /\ BitAnd(window_callbacks[source].mask, SubKindBit(slot)) = 0

\* C10: a run of a trampoline that finds nothing to call invokes no handler
\* and returns normally, the monitor and error trampolines included.
C10_EmptyDispatchIsSilent ==
    \A slot \in EventSlots : \A source \in Sources(slot) :
        (TrampolineRan(slot, source) /\ NothingToCall(slot, source))
        => (invoked = << >> /\ ~fault)


\* ---------------------------------------------------------- window lifetime
\* A missing return statement was reached and the build made it a trap.
Terminated == lastOp.op = "terminated"

\* Application code runs: no trampoline is on the stack and the program has
\* not been terminated.
InApplication == ~InTrampoline /\ ~Terminated

\* What an operation on window or window_ref objects leaves behind: it makes
\* no registry call and no glfwSet*Callback call.
LifetimeStep(op, id) ==
    /\ InApplication
    /\ lastOp' = [op |-> op, slot |-> "", id |-> id]
    /\ invoked' = << >>
    /\ fault' = FALSE
    /\ UNCHANGED << glfw_callbacks, globalSlot, lastReg, lastMask, scenario, orderVars,
                    libraryVars >>

\* A native layer whose new window inherits the callback slots last set for
\* its handle value.
glfwCreateWindowKeepingSlots(handle) ==
    /\ handle \in (Windows \ nativeWindows) \cup { nullptr }
    /\ nativeWindows' = nativeWindows \cup ({ handle } \ { nullptr })
    /\ UNCHANGED << windowSlot, stale >>

\* glfwCreateWindow: a handle no live window has, possibly the handle of a
\* window destroyed earlier, or NULL on failure. The callback slots of a new
\* window are null.
glfwCreateWindow(handle) ==
    /\ handle \in (Windows \ nativeWindows) \cup { nullptr }
    /\ nativeWindows' = nativeWindows \cup ({ handle } \ { nullptr })
    /\ windowSlot' = IF handle = nullptr THEN windowSlot
                     ELSE [windowSlot EXCEPT ![handle] = [s \in WindowSlots |-> NULL]]
    /\ UNCHANGED stale

\* glfwDestroyWindow: the window is gone; NULL is accepted and ignored. The
\* registry is not told: what was registered for the handle is stale now.
glfwDestroyWindow(handle) ==
    /\ nativeWindows' = nativeWindows \ { handle }
    /\ stale' = stale \cup { k \in Touched : k[1] \notin GlobalSlots /\ k[2] = handle }
    /\ UNCHANGED windowSlot

\* window::window(window_size, std::string_view, ...)
window_window(o, handle) ==
    /\ ~windowObjects[o].live
    /\ LifetimeStep("window::window", o)
    /\ glfwCreateWindow(handle)
    /\ windowObjects' = [windowObjects EXCEPT ![o] = Holding(handle)]
    /\ UNCHANGED << windowRefs, movedFrom >>

\* window::window(window&& w)
window_window_move(o, w) ==
    /\ ~windowObjects[o].live
    /\ windowObjects[w].live
    /\ LifetimeStep("window::window(window&&)", o)
    /\ windowObjects' = [windowObjects EXCEPT ![o] = Holding(windowObjects[w].m_handle),
                                               ![w] = Holding(nullptr)]
    /\ movedFrom' = (movedFrom \ { o }) \cup { w }
    /\ UNCHANGED << nativeWindows, windowSlot, windowRefs, stale >>

\* The two assignments of window::operator=(window&& w), in their order; `o`
\* and `w` may be the same object.
MoveAssigned(objects, o, w) ==
    LET first == [objects EXCEPT ![o] = Holding(objects[w].m_handle)]
    IN  [first EXCEPT ![w] = Holding(nullptr)]

\* What a build makes of window::operator=(window&& w), which ends without a
\* return statement: the assignments as written, nothing at all (the path is
\* treated as unreachable and dropped), or a trap.
MoveAssignOutcomes == { "assigned", "elided", "trap" }

\* window::operator=(window&& w)
window_move_assign(o, w, outcome) ==
    /\ windowObjects[o].live
    /\ windowObjects[w].live
    /\ InApplication
    /\ lastOp' = [op |-> IF outcome = "trap" THEN "terminated" ELSE "window::operator=(window&&)",
                  slot |-> "", id |-> o]
    /\ invoked' = << >>
    /\ fault' = FALSE
    /\ windowObjects' = IF outcome = "assigned" THEN MoveAssigned(windowObjects, o, w)
                        ELSE windowObjects
    /\ movedFrom' = IF outcome = "trap" THEN movedFrom
                    ELSE (movedFrom \ { o }) \cup { w }
    /\ UNCHANGED << glfw_callbacks, windowSlot, globalSlot, lastReg, lastMask, scenario,
                    nativeWindows, windowRefs, stale, orderVars, libraryVars >>

\* window::~window()
window_destroy(o) ==
    /\ windowObjects[o].live
    /\ LifetimeStep("window::~window", windowObjects[o].m_handle)
    /\ glfwDestroyWindow(windowObjects[o].m_handle)
    /\ windowObjects' = [windowObjects EXCEPT ![o] = NotConstructed]
    /\ movedFrom' = movedFrom \ { o }
    /\ UNCHANGED windowRefs

\* window_ref::window_ref(GLFWwindow* window)
window_ref_from_handle(r, handle) ==
    /\ ~windowRefs[r].live
    /\ LifetimeStep("window_ref::window_ref(GLFWwindow*)", r)
    /\ windowRefs' = [windowRefs EXCEPT ![r] = Holding(handle)]
    /\ UNCHANGED << nativeWindows, windowSlot, windowObjects, movedFrom, stale >>

\* window_ref::window_ref(window window): the parameter is a window object of
\* its own, move-constructed from the caller's object w; the reference takes
\* the parameter's handle through operator GLFWwindow*, and the parameter is
\* destroyed when the constructor call ends.
window_ref_from_window(r, w) ==
    /\ ~windowRefs[r].live
    /\ windowObjects[w].live
    /\ LifetimeStep("window_ref::window_ref(window)", r)
    /\ windowRefs' = [windowRefs EXCEPT ![r] = Holding(windowObjects[w].m_handle)]
    /\ windowObjects' = [windowObjects EXCEPT ![w] = Holding(nullptr)]
    /\ movedFrom' = movedFrom \cup { w }
    /\ glfwDestroyWindow(windowObjects[w].m_handle)

\* window_ref::window_ref(const window_ref&), implicitly declared
window_ref_copy(r, from) ==
    /\ ~windowRefs[r].live
    /\ windowRefs[from].live
    /\ LifetimeStep("window_ref::window_ref(const window_ref&)", r)
    /\ windowRefs' = [windowRefs EXCEPT ![r] = windowRefs[from]]
    /\ UNCHANGED << nativeWindows, windowSlot, windowObjects, movedFrom, stale >>

\* window_ref::~window_ref(), implicitly declared
window_ref_destroy(r) ==
    /\ windowRefs[r].live
    /\ LifetimeStep("window_ref::~window_ref", r)
    /\ windowRefs' = [windowRefs EXCEPT ![r] = NotConstructed]
    /\ UNCHANGED << nativeWindows, windowSlot, windowObjects, movedFrom, stale >>

\* A program that creates, moves and destroys window objects.
NextHandles ==
    \/ \E o \in WindowObjects, handle \in Windows \cup { nullptr } : window_window(o, handle)
    \/ \E o, w \in WindowObjects : window_window_move(o, w)
    \/ \E o, w \in WindowObjects, outcome \in MoveAssignOutcomes :
           window_move_assign(o, w, outcome)
    \/ \E o \in WindowObjects : window_destroy(o)

SpecHandles == Init /\ [][NextHandles]_vars

\* A program that creates and destroys windows and makes, copies and destroys
\* references to them.
NextRefs ==
    \/ \E o \in WindowObjects, handle \in Windows \cup { nullptr } : window_window(o, handle)
    \/ \E o \in WindowObjects : window_destroy(o)
    \/ \E r \in WindowRefs, handle \in nativeWindows \cup { nullptr } :
           window_ref_from_handle(r, handle)
    \/ \E r \in WindowRefs, w \in WindowObjects : window_ref_from_window(r, w)
    \/ \E r, from \in WindowRefs : window_ref_copy(r, from)
    \/ \E r \in WindowRefs : window_ref_destroy(r)

SpecRefs == Init /\ [][NextRefs]_vars

\* A program that creates and destroys windows and registers key handlers for
\* the live ones, while the native layer delivers key events of live windows.
NextTeardown ==
    \/ \E o \in WindowObjects, handle \in Windows \cup { nullptr } : window_window(o, handle)
    \/ \E o \in WindowObjects : window_destroy(o)
    \/ \E w \in nativeWindows, cb \in Handlers : set_key_callback(w, cb)
    \/ \E w \in nativeWindows : set_key_callback_nullptr(w)
    \/ \E w \in nativeWindows : NativeEvent("Key", w)
    \/ \E w \in Windows : TrampolineRuns("Key", w)
    \/ Return

SpecTeardown == Init /\ [][NextTeardown]_vars


\* C11: a handler is cleared when its owning window is destroyed. When the
\* destructor of a window object that owns handle W has returned, no registry
\* map holds a non-empty handler for W.
C11_DestructionClearsHandlers ==
    \A w \in Windows :
        (lastOp.op = "window::~window" /\ lastOp.id = w)
        => \A slot \in WindowSlots : StoredHandler(slot, w) = nullptr

\* The construction, copy and destruction of window_ref values.
WindowRefOperations ==
    { "window_ref::window_ref(GLFWwindow*)", "window_ref::window_ref(window)",
      "window_ref::window_ref(const window_ref&)", "window_ref::~window_ref" }

\* C12: window_ref is non-owning. No construction of a window_ref (from a raw
\* handle or from a window object), no copy and no destruction of one
\* destroys a native window.
C12_WindowRefNonOwning ==
    [][lastOp'.op \in WindowRefOperations => nativeWindows' = nativeWindows]_vars

\* C13: window is a unique, movable handle. No two live window objects hold
\* the same non-null native handle, and a window that was the source of a move
\* holds the null handle.
C13_UniqueMovableHandle ==
    /\ \A o, w \in WindowObjects :
           ( /\ o # w
             /\ windowObjects[o].live
             /\ windowObjects[w].live
             /\ windowObjects[o].m_handle # nullptr )
           => windowObjects[o].m_handle # windowObjects[w].m_handle
    /\ \A w \in movedFrom : windowObjects[w].m_handle = nullptr


\* The key entry of handle w was registered for a window that has since been
\* destroyed, it holds the non-empty handler h, and a new window with the
\* same handle value is live.
StaleReuse(w, h) ==
    /\ w \in nativeWindows
    /\ << "Key", w >> \in stale
    /\ lastReg[<< "Key", w >>] = h
    /\ h # nullptr

\* C19 as stated: after a stale identity reuse the events of the new window
\* are delivered to the old window's handler.
C19_StaleReuseMisdelivers ==
    \A w \in Windows : \A h \in Handlers :
        (StaleReuse(w, h) /\ Delivered("Key", w)) => InvokedOnce(h, w)

\* C19: stale identity reuse. When a window with a registered handler is
\* destroyed and a new window gets the same handle value, the stale entry
\* stays in the registry with the old handler, and a call of the trampoline
\* with that handle invokes it; but the native slot of the new window is null,
\* so no event of the new window is delivered and the old handler is not
\* invoked by any.
C19_StaleReuseKeepsEntryUndelivered ==
    \A w \in Windows : \A h \in Handlers :
        StaleReuse(w, h)
        => /\ StoredHandler("Key", w) = h
           /\ Installed("Key", w) = NULL
           /\ Delivered("Key", w) => (invoked = << >> /\ ~fault)
           /\ TrampolineRan("Key", w) => InvokedOnce(h, w)

\* A key event of the new window arrives while the old window's handler is
\* still stored for the handle, and nothing is invoked.
C19_Witness ==
    \E w \in Windows : \E h \in Handlers :
        /\ StaleReuse(w, h)
        /\ Delivered("Key", w)
        /\ StoredHandler("Key", w) = h
        /\ invoked = << >>


\* The identities a register call of the kind's family was ever made for.
EverPassed(slot) == { k[2] : k \in { t \in Touched : t[1] = slot } }

\* C20: entry lifecycle. The key map and the window-event map hold an entry
\* for exactly the windows that were ever passed to a register call of theirs:
\* none before the first call (a dispatch creates none), and one ever after,
\* whatever is registered later; when the nullptr overload returns the entry
\* is still there and its stored closure is empty.
C20_EntryLifecycle ==
    /\ DOMAIN key_callbacks = EverPassed("Key")
    /\ DOMAIN window_callbacks = EverPassed("Window")
    /\ \A w \in Windows :
           /\ JustCleared("Key", w)
              => (w \in DOMAIN key_callbacks /\ key_callbacks[w] = nullptr)
           /\ JustCleared("WindowPos", w)
              => (w \in DOMAIN window_callbacks /\ window_callbacks[w].callback = nullptr)

\* A key handler was registered for a window and then cleared: the entry is
\* present and empty, and a window never registered has none.
C20_Witness ==
    \E w, other \in Windows : \E h \in Handlers :
        /\ ScenarioIs(<< Registration("Key", w, h, 0), Registration("Key", w, nullptr, 0) >>)
        /\ JustCleared("Key", w)
        /\ w \in DOMAIN key_callbacks
        /\ key_callbacks[w] = nullptr
        /\ other \notin DOMAIN key_callbacks


\* C15: installation discipline. In every state reached by registrations the
\* native slot of a kind and identity holds the kind's trampoline if and only
\* if the registry has something to call for it: a non-empty stored handler
\* and, for a window sub-kind, the sub-kind's bit in the stored mask.
C15_InstallationDiscipline ==
    \A slot \in EventSlots : \A source \in Sources(slot) :
        (Installed(slot, source) = TrampolineOf(slot)) <=> ~NothingToCall(slot, source)


\* ------------------------------------------------- dispatch, step by step
\* The handler the registration calls made so far ask to be invoked for an
\* event of the kind from the source, empty if none.
Expected(slot, source) ==
    IF /\ EverRegistered(slot, source)
       /\ slot \in WindowSubKinds => BitAnd(lastMask[source], SubKindBit(slot)) # 0
    THEN LastRegistered(slot, source)
    ELSE nullptr

\* A handler is executing: the trampoline has called the stored function and
\* the call has not come back.
InHandler == lastOp.op = "handler"

\* A trampoline that catches what its handler throws.
TrampolineCatches(outcome) == FALSE

\* How a finished handler leaves its trampoline: no trampoline has a try
\* block, so an exception of the handler leaves the trampoline too.
TrampolineExit(outcome) == outcome # "returns"

\* The native layer (or any caller) calls the trampoline of a kind. With
\* nothing to call the trampoline is done at once; otherwise it calls the
\* stored function, whose closure is the one stored in the registry.
TrampolineCalled(slot, source) ==
    LET result == CallPointer(TrampolineOf(slot), source) IN
    /\ ~InTrampoline
    /\ running = NoInvocation
    /\ invoked' = result.calls
    /\ IF result.calls = << >>
       THEN /\ lastOp' = [op |-> "trampoline", slot |-> slot, id |-> source]
            /\ fault' = result.fault
            /\ UNCHANGED running
       ELSE /\ lastOp' = [op |-> "handler", slot |-> slot, id |-> source]
            /\ fault' = FALSE
            /\ running' = [slot |-> RegSlot(slot), id |-> RegId(slot, source),
                           handler |-> result.calls[1].handler,
                           closure |-> "alive", outcome |-> ""]
    /\ UNCHANGED << glfw_callbacks, windowSlot, globalSlot, lastReg, lastMask, scenario,
                    lifetimeVars, libraryVars, stale >>

\* A trampoline call whose event and invocation are written down, in the
\* order in which they happen.
LoggedDispatch(slot, source) ==
    /\ Len(eventLog) < MaxEvents
    /\ TrampolineCalled(slot, source)
    /\ eventLog' = Append(eventLog,
                       [slot |-> slot, source |-> source, expected |-> Expected(slot, source)])
    /\ callLog' = callLog \o invoked'

\* A trampoline call that is not written down.
UnloggedDispatch(slot, source) ==
    /\ TrampolineCalled(slot, source)
    /\ UNCHANGED << eventLog, callLog >>

\* The executing handler calls input::set_key_callback itself, with a new
\* handler or with nullptr. The assignment to the map entry destroys the
\* closure stored there before; if that is the executing one, the rest of the
\* handler runs on a destroyed closure.
HandlerRegisters(window, callback, pointer) ==
    /\ InHandler
    /\ SlotAvailable("Key", window)
    /\ SetInputCallback("key_callbacks", "Key", pointer, window, callback)
    /\ lastReg' = MapAssign(lastReg, << "Key", window >>, callback)
    /\ scenario' = Extended(Registration("Key", window, callback, 0))
    /\ stale' = stale \ { << "Key", window >> }
    /\ running' = IF running.slot = "Key" /\ running.id = window
                  THEN [running EXCEPT !.closure = "destroyed"]
                  ELSE running
    /\ UNCHANGED << lastOp, invoked, fault, lifetimeVars, libraryVars, eventLog, callLog >>

\* What can become of a handler's execution: it returns or throws; one that
\* goes on after its closure was destroyed may also touch the destroyed
\* captures, with whatever that does to the program.
HandlerOutcomes(closure) ==
    IF closure = "destroyed" THEN { "returns", "throws", "crashes" }
    ELSE { "returns", "throws" }

\* The handler's execution ends; control is back in the trampoline, which
\* has nothing left to do, unless the program has crashed.
HandlerCompletes(outcome) ==
    /\ InHandler
    /\ outcome \in HandlerOutcomes(running.closure)
    /\ running' = [running EXCEPT !.outcome = outcome]
    /\ lastOp' = [lastOp EXCEPT !.op = IF outcome = "crashes" THEN "terminated"
                                       ELSE "trampoline"]
    /\ fault' = TrampolineExit(outcome)
    /\ UNCHANGED << glfw_callbacks, windowSlot, globalSlot, lastReg, lastMask, scenario,
                    invoked, lifetimeVars, libraryVars, stale, eventLog, callLog >>

\* The trampoline returns to its caller, or its exception arrives there.
TrampolineReturns ==
    /\ InTrampoline
    /\ lastOp' = [op |-> "return", slot |-> "", id |-> 0]
    /\ invoked' = << >>
    /\ fault' = FALSE
    /\ running' = NoInvocation
    /\ UNCHANGED << glfw_callbacks, windowSlot, globalSlot, lastReg, lastMask, scenario,
                    lifetimeVars, libraryVars, stale, eventLog, callLog >>

\* A program that registers and clears key handlers while key events are
\* dispatched; events and invocations are written down.
NextOrder ==
    \/ ~InHandler /\ ~Terminated /\ \E w \in Windows, cb \in Handlers : set_key_callback(w, cb)
    \/ ~InHandler /\ ~Terminated /\ \E w \in Windows : set_key_callback_nullptr(w)
    \/ \E w \in Windows : LoggedDispatch("Key", w)
    \/ \E outcome \in { "returns", "throws" } : HandlerCompletes(outcome)
    \/ TrampolineReturns

SpecOrder == Init /\ [][NextOrder]_vars

\* A program that registers monitor and joystick handlers while events of
\* the monitors and joysticks are dispatched and written down.
NextGlobal ==
    \/ ~InHandler /\ ~Terminated /\ \E cb \in Handlers : monitor_events_set_event_callback(cb)
    \/ ~InHandler /\ ~Terminated /\ \E cb \in Handlers : set_joystick_callback(cb)
    \/ \E slot \in { "Monitor", "Joystick" } : \E source \in Sources(slot) :
           LoggedDispatch(slot, source)
    \/ \E outcome \in { "returns", "throws" } : HandlerCompletes(outcome)
    \/ TrampolineReturns

SpecGlobal == Init /\ [][NextGlobal]_vars

\* A program whose key handlers register and clear key handlers themselves.
NextReentry ==
    \/ ~InHandler /\ ~Terminated /\ \E w \in Windows, cb \in Handlers : set_key_callback(w, cb)
    \/ ~InHandler /\ ~Terminated /\ \E w \in Windows : set_key_callback_nullptr(w)
    \/ \E w \in Windows : UnloggedDispatch("Key", w)
    \/ \E w \in Windows, cb \in Handlers : HandlerRegisters(w, cb, "glfw_key_callback")
    \/ \E w \in Windows : HandlerRegisters(w, nullptr, NULL)
    \/ \E outcome \in { "returns", "throws", "crashes" } : HandlerCompletes(outcome)
    \/ TrampolineReturns

SpecReentry == Init /\ [][NextReentry]_vars

\* The trampoline of the kind has been called for the source and has not
\* returned to its caller yet.
Dispatching(slot, source) ==
    /\ lastOp.op \in { "handler", "trampoline" }
    /\ lastOp.slot = slot
    /\ lastOp.id = source

\* The name of the event value a kind's trampoline builds.
EventOf(slot) ==
    CASE slot = "Monitor" -> "monitor_event"
      [] slot = "Joystick" -> "joystick_event"
      [] slot = "Key" -> "key_event"

\* C14 (as stated): a handler registered for one monitor, or one joystick,
\* is invoked only for events of that identity. Registration names no
\* identity, so with one registration in the whole run the handler's
\* identity could only show in its invocations all having the same source.
C14_HandlerBoundToOneIdentity ==
    \A slot \in { "Monitor", "Joystick" } : \A h \in Handlers :
        ScenarioIs(<< Registration(slot, 0, h, 0) >>) =>
            \A i, j \in DOMAIN callLog : callLog[i].source = callLog[j].source

\* C14 (amended): there is one monitor handler and one joystick handler for
\* the whole process. The non-empty handler most recently registered for the
\* kind is invoked exactly once for an event of any monitor (joystick), and
\* the event value carries the identity of the monitor (joystick) the event
\* came from.
C14_ProcessWideHandlerServesEverySource ==
    \A slot \in { "Monitor", "Joystick" } : \A source \in Sources(slot) :
        ( /\ Dispatching(slot, source)
          /\ EverRegistered(slot, source)
          /\ LastRegistered(slot, source) # nullptr )
        => invoked = << Invocation(LastRegistered(slot, source), EventOf(slot), source) >>

\* A single monitor registration whose handler has served two monitors.
C14_Witness ==
    \E h \in Handlers :
        /\ ScenarioIs(<< Registration("Monitor", 0, h, 0) >>)
        /\ Len(callLog) = 2
        /\ callLog[1] = Invocation(h, "monitor_event", 1)
        /\ callLog[2] = Invocation(h, "monitor_event", 2)

\* The invocations a sequence of events asks for: one for each event that had
\* a handler to go to when it arrived, in the order of the events.
RECURSIVE MatchingEvents(_)
MatchingEvents(log) ==
    IF log = << >> THEN << >>
    ELSE LET e == Head(log) IN
         ( IF e.expected # nullptr
           THEN << Invocation(e.expected, EventOf(e.slot), e.source) >>
           ELSE << >> ) \o MatchingEvents(Tail(log))

DispatchStep == lastOp'.op \in { "handler", "trampoline", "return" }

\* C18: a fault raised inside a handler is not caught. When the executing
\* handler throws, the fault leaves the trampoline towards the caller of the
\* event pump with that one invocation made and no other; the next thing that
\* happens is the arrival at the call site, without another invocation; and
\* no step of a dispatch changes the stored handlers, the masks or the native
\* slots.
C18_HandlerFaultPropagates ==
    [][ /\ DispatchStep => UNCHANGED << glfw_callbacks, windowSlot, globalSlot >>
        /\ (running.outcome = "" /\ running'.outcome = "throws") =>
               /\ fault'
               /\ invoked' = << Invocation(running.handler, EventOf(lastOp.slot), lastOp.id) >>
               /\ callLog' = callLog
        /\ running.outcome = "throws" =>
               /\ lastOp'.op = "return"
               /\ callLog' = callLog
      ]_vars

\* A handler has thrown and the fault is on its way out of the trampoline.
C18_Witness ==
    /\ running.outcome = "throws"
    /\ running.handler \in Handlers
    /\ InTrampoline
    /\ fault
    /\ Len(callLog) = 1

\* A handler that starts executing is the one registered for its slot at
\* that time: until its slot is registered again it is still the registered
\* one, so no cleared handler is ever started.
StartedHandlerIsRegistered ==
    (InHandler /\ running.closure = "alive") =>
        /\ running.handler # nullptr
        /\ running.handler = lastReg[<< running.slot, running.id >>]

\* C17: cancellation by the empty handler takes effect from the next
\* delivered event. No event delivered after the clear starts the old
\* handler, and the invocation during which its own slot is cleared, by the
\* handler itself, is not aborted: it ends as the handler ends it, by
\* returning or by throwing.
C17_ClearTakesEffectFromNextEvent ==
    /\ StartedHandlerIsRegistered
    /\ ( /\ running.closure = "destroyed"
         /\ running.outcome # ""
         /\ lastReg[<< running.slot, running.id >>] = nullptr )
       => running.outcome \in { "returns", "throws" }

\* ------------------------------------------------------- frame conditions
\* The names of the calls that register, clear or register with a mask.
RegistrationOperations ==
    { "errors::set_callback", "errors::set_callback(nullptr)",
      "monitor_events::set_event_callback", "monitor_events::set_event_callback(nullptr)",
      "window_events::set_event_callback", "window_events::set_event_callback(nullptr)",
      "set_key_callback", "set_key_callback(nullptr)",
      "set_char_callback", "set_char_callback(nullptr)",
      "set_cursor_callback", "set_cursor_callback(nullptr)",
      "set_cursor_enter_callback", "set_cursor_enter_callback(nullptr)",
      "set_mouse_button_callback", "set_mouse_button_callback(nullptr)",
      "set_mouse_scroll_callback", "set_mouse_scroll_callback(nullptr)",
      "set_drop_callback", "set_drop_callback(nullptr)",
      "set_joystick_callback", "set_joystick_callback(nullptr)" }

\* C21: dispatch only reads the registry. A step in which a trampoline is
\* called, directly or by the native layer, or returns, leaves the stored
\* handlers and masks, the entries of every map and every native callback
\* slot as they were; a step that changes any of them is a register,
\* register-empty or masked register call.
C21_DispatchOnlyReads ==
    [][ /\ lastOp'.op \in { "trampoline", "native", "return" } =>
               UNCHANGED << glfw_callbacks, windowSlot, globalSlot >>
        /\ ~(UNCHANGED << glfw_callbacks, windowSlot, globalSlot >>) =>
               lastOp'.op \in RegistrationOperations
      ]_vars

\* The key trampoline has run for a window without an entry of its own while
\* another window's key handler is stored.
C21_Witness ==
    \E w \in Windows :
        /\ TrampolineRan("Key", w)
        /\ w \notin DOMAIN key_callbacks
        /\ \E v \in DOMAIN key_callbacks : key_callbacks[v] # nullptr

\* The pair (identity, kind) of a source is another pair than the one the
\* registration call that is returning was made for; the nine window
\* sub-kinds of a window are one pair.
OtherPair(slot, source) ==
    \/ RegSlot(slot) # lastOp'.slot
    \/ RegId(slot, source) # lastOp'.id

\* The mask stored for a window, 0 when the window has no entry.
StoredMask(w) ==
    IF w \in DOMAIN window_callbacks THEN window_callbacks[w].mask ELSE 0

\* C22: slot independence. A register or clear call for (I, K) leaves the
\* stored handler and the native slot of every other pair as they were. A
\* masked call for window I replaces the one handler and the one mask shared
\* by the nine window sub-kinds of I, and leaves the mask of every other
\* window as it was.
C22_SlotIndependence ==
    [][ lastOp'.op \in RegistrationOperations =>
          /\ \A slot \in WindowSlots \cup GlobalSlots : \A source \in Sources(slot) :
                 OtherPair(slot, source) =>
                     /\ StoredHandler(slot, source)' = StoredHandler(slot, source)
                     /\ Installed(slot, source)' = Installed(slot, source)
          /\ \A w \in Windows :
                 (lastOp'.slot # "Window" \/ lastOp'.id # w) => StoredMask(w)' = StoredMask(w)
          /\ \A w \in Windows :
                 (lastOp'.op = "window_events::set_event_callback" /\ lastOp'.id = w) =>
                     /\ StoredMask(w)' = lastMask'[w]
                     /\ \A slot \in WindowSubKinds :
                            StoredHandler(slot, w)' = lastReg'[<< "Window", w >>]
      ]_vars

\* The window-event handler of a window has just been cleared while the key
\* handler of the same window is stored and installed.
C22_Witness ==
    \E w \in Windows :
        /\ lastOp.op = "window_events::set_event_callback(nullptr)"
        /\ lastOp.id = w
        /\ StoredHandler("Key", w) \in Handlers
        /\ Installed("Key", w) = "glfw_key_callback"

\* ------------------------------------------------------ resource lifetime
\* C23: no window leak and no double destroy. Once every window object has
\* been destroyed no native window created by a window constructor is left
\* alive, a move assignment into a window that owns a handle included; and
\* no destructor passes glfwDestroyWindow a window that is already destroyed.
C23_NoWindowLeakNoDoubleDestroy ==
    /\ []( (\A o \in WindowObjects : ~windowObjects[o].live) => nativeWindows = {} )
    /\ [][ (lastOp'.op = "window::~window" /\ lastOp'.id # nullptr) =>
               lastOp'.id \in nativeWindows ]_vars

\* ----------------------------------------------------------------- cursors
\* What an operation outside the registry and the windows leaves behind.
LibraryStep(op, id) ==
    /\ InApplication
    /\ lastOp' = [op |-> op, slot |-> "", id |-> id]
    /\ invoked' = << >>
    /\ fault' = FALSE
    /\ UNCHANGED << glfw_callbacks, windowSlot, globalSlot, lastReg, lastMask, scenario,
                    lifetimeVars, stale, orderVars >>

\* An operation on cursor objects.
CursorStep(op, id) ==
    /\ LibraryStep(op, id)
    /\ UNCHANGED << functionVars, builderVars, initVars >>

\* glfwDestroyCursor: NULL is accepted and ignored; the call is counted for
\* the handle it is given.
glfwDestroyCursor(destroys, handle) ==
    IF handle = nullptr THEN destroys
    ELSE [destroys EXCEPT ![handle] = @ + 1]

\* The count of glfwDestroyCursor calls stays within the exploration bound.
CanDestroy(handle) ==
    handle # nullptr => cursorDestroys[handle] < MaxCursorDestroys

\* The handle a cursor creation of the native layer returns: one not created
\* before, or NULL on failure.
NewCursorHandles == (CursorHandles \ createdCursors) \cup { nullptr }

\* The temporary cursor{cursorHandle} of cursor::create: the std::optional is
\* constructed from it by copy, and its destructor runs when the return
\* statement ends.
TemporaryDestroyed(destroys, handle) == glfwDestroyCursor(destroys, handle)

\* cursor::create(image, hotspot): std::nullopt when glfwCreateCursor fails,
\* or the cursor in the returned optional, stored in c.
cursor_create(c, handle) ==
    /\ ~cursorObjects[c].live
    /\ handle \in NewCursorHandles
    /\ CursorStep("cursor::create", handle)
    /\ createdCursors' = createdCursors \cup ({ handle } \ { nullptr })
    /\ cursorObjects' = IF handle = nullptr THEN cursorObjects
                        ELSE [cursorObjects EXCEPT ![c] = Holding(handle)]
    /\ cursorDestroys' = TemporaryDestroyed(cursorDestroys, handle)

\* cursor::create_standard_cursor(shape): the returned prvalue initialises c,
\* with no temporary; a failed glfwCreateStandardCursor gives a cursor
\* holding NULL.
cursor_create_standard_cursor(c, handle) ==
    /\ ~cursorObjects[c].live
    /\ handle \in NewCursorHandles
    /\ CursorStep("cursor::create_standard_cursor", handle)
    /\ createdCursors' = createdCursors \cup ({ handle } \ { nullptr })
    /\ cursorObjects' = [cursorObjects EXCEPT ![c] = Holding(handle)]
    /\ UNCHANGED cursorDestroys

\* cursor::cursor(const cursor&), implicitly declared: the copy holds the
\* same handle.
cursor_copy(c, from) ==
    /\ ~cursorObjects[c].live
    /\ cursorObjects[from].live
    /\ CursorStep("cursor::cursor(const cursor&)", cursorObjects[from].m_handle)
    /\ cursorObjects' = [cursorObjects EXCEPT ![c] = cursorObjects[from]]
    /\ UNCHANGED << createdCursors, cursorDestroys >>

\* window::set_cursor(cursor newCursor), window_ref::set_cursor: the
\* parameter is a copy of the caller's cursor c, destroyed when the call ends.
set_cursor(c) ==
    /\ cursorObjects[c].live
    /\ CanDestroy(cursorObjects[c].m_handle)
    /\ CursorStep("window::set_cursor", cursorObjects[c].m_handle)
    /\ cursorDestroys' = glfwDestroyCursor(cursorDestroys, cursorObjects[c].m_handle)
    /\ UNCHANGED << cursorObjects, createdCursors >>

\* cursor::~cursor()
cursor_destroy(c) ==
    /\ cursorObjects[c].live
    /\ CanDestroy(cursorObjects[c].m_handle)
    /\ CursorStep("cursor::~cursor", cursorObjects[c].m_handle)
    /\ cursorDestroys' = glfwDestroyCursor(cursorDestroys, cursorObjects[c].m_handle)
    /\ cursorObjects' = [cursorObjects EXCEPT ![c] = NotConstructed]
    /\ UNCHANGED createdCursors

\* A program that creates, copies, sets and destroys cursors.
NextCursors ==
    \/ \E c \in CursorObjects, handle \in CursorHandles \cup { nullptr } : cursor_create(c, handle)
    \/ \E c \in CursorObjects, handle \in CursorHandles \cup { nullptr } :
           cursor_create_standard_cursor(c, handle)
    \/ \E c, from \in CursorObjects : cursor_copy(c, from)
    \/ \E c \in CursorObjects : set_cursor(c)
    \/ \E c \in CursorObjects : cursor_destroy(c)

SpecCursors == Init /\ [][NextCursors]_vars

\* C24: each native cursor handle is destroyed at most once, and never while
\* a cursor object the caller has still holds it.
C24_CursorDestroyedOnceAfterLastHolder ==
    /\ \A h \in CursorHandles : cursorDestroys[h] <= 1
    /\ \A c \in CursorObjects :
           (cursorObjects[c].live /\ cursorObjects[c].m_handle # nullptr) =>
               cursorDestroys[cursorObjects[c].m_handle] = 0

\* ------------------------------------------- functions without side effects
\* A detail::version_base value.
version_base(majorV, minorV, rev) == [major |-> majorV, minor |-> minorV, revision |-> rev]

VersionParts == 0..MaxVersionPart

Versions == { version_base(a, b, c) : a \in VersionParts, b \in VersionParts, c \in VersionParts }

\* version_base::operator==
operator_eq(lhs, rhs) ==
    lhs.major = rhs.major /\ lhs.minor = rhs.minor /\ lhs.revision = rhs.revision

\* version_base::operator!=
operator_ne(lhs, rhs) == ~operator_eq(lhs, rhs)

\* version_base::operator<
operator_lt(lhs, rhs) ==
    IF lhs.major < rhs.major THEN TRUE
    ELSE IF lhs.minor < rhs.minor THEN TRUE
    ELSE IF lhs.revision < rhs.revision THEN TRUE
    ELSE FALSE

\* version_base::operator>
operator_gt(lhs, rhs) ==
    IF lhs.major > rhs.major THEN TRUE
    ELSE IF lhs.minor > rhs.minor THEN TRUE
    ELSE IF lhs.revision > rhs.revision THEN TRUE
    ELSE FALSE

\* version_base::operator<=
operator_le(lhs, rhs) ==
    IF lhs.major <= rhs.major THEN TRUE
    ELSE IF lhs.minor <= rhs.minor THEN TRUE
    ELSE IF lhs.revision <= rhs.revision THEN TRUE
    ELSE FALSE

\* version_base::operator>=
operator_ge(lhs, rhs) ==
    IF lhs.major >= rhs.major THEN TRUE
    ELSE IF lhs.minor >= rhs.minor THEN TRUE
    ELSE IF lhs.revision >= rhs.revision THEN TRUE
    ELSE FALSE

\* The values of enum class joystick_id, JOYSTICK_1 to JOYSTICK_16, and the
\* size of detail::gamepad_states.
GLFW_JOYSTICK_1 == 0
GLFW_JOYSTICK_16 == 15
GLFW_JOYSTICK_LAST == GLFW_JOYSTICK_16
joystick_id == GLFW_JOYSTICK_1..GLFW_JOYSTICK_16

\* std::array::operator[] of detail::gamepad_states: an element of the
\* array, or, past its end, whatever the build makes of the access.
GamepadStateAccess(index) ==
    IF index < GLFW_JOYSTICK_LAST THEN { "element" }
    ELSE { "memory past the array", "crash" }

\* The calls a program makes: a comparison of two versions with each of the
\* six operators, or current_gamepad_state of a joystick.
FunctionCalls ==
    { [function |-> "version_base", lhs |-> a, rhs |-> b] : a \in Versions, b \in Versions }
    \cup { [function |-> "current_gamepad_state", joystick |-> j] : j \in joystick_id }

\* A step that calls a function without side effects.
FunctionStep(op) ==
    /\ returnValue = NoCall
    /\ LibraryStep(op, 0)
    /\ UNCHANGED << cursorVars, arguments, builderVars, initVars >>

\* The six comparison operators applied to the two versions.
version_base_compare ==
    /\ arguments.function = "version_base"
    /\ FunctionStep("version_base comparison")
    /\ returnValue' = [ eq |-> operator_eq(arguments.lhs, arguments.rhs),
                        ne |-> operator_ne(arguments.lhs, arguments.rhs),
                        lt |-> operator_lt(arguments.lhs, arguments.rhs),
                        gt |-> operator_gt(arguments.lhs, arguments.rhs),
                        le |-> operator_le(arguments.lhs, arguments.rhs),
                        ge |-> operator_ge(arguments.lhs, arguments.rhs) ]

\* input::current_gamepad_state(joystick)
current_gamepad_state(access) ==
    /\ arguments.function = "current_gamepad_state"
    /\ access \in GamepadStateAccess(arguments.joystick)
    /\ FunctionStep("current_gamepad_state")
    /\ returnValue' = [ index |-> arguments.joystick, state |-> access ]

InitFunctions ==
    /\ InitProgram
    /\ arguments \in FunctionCalls

NextFunctions ==
    \/ version_base_compare
    \/ \E access \in { "element", "memory past the array", "crash" } :
           current_gamepad_state(access)

SpecFunctions == InitFunctions /\ [][NextFunctions]_vars

\* Lexicographic order on (major, minor, revision).
LexicographicLess(a, b) ==
    \/ a.major < b.major
    \/ a.major = b.major /\ a.minor < b.minor
    \/ a.major = b.major /\ a.minor = b.minor /\ a.revision < b.revision

\* The comparison of the two versions has been made.
Compared == arguments.function = "version_base" /\ returnValue # NoCall

\* C25: version comparison is a consistent total order. For every two
\* versions exactly one of <, ==, > holds, <= is (< or ==), >= is (> or ==),
\* and < is the lexicographic order on (major, minor, revision).
C25_VersionTotalOrder ==
    Compared =>
        /\ \/ returnValue.lt /\ ~returnValue.eq /\ ~returnValue.gt
           \/ ~returnValue.lt /\ returnValue.eq /\ ~returnValue.gt
           \/ ~returnValue.lt /\ ~returnValue.eq /\ returnValue.gt
        /\ returnValue.le <=> (returnValue.lt \/ returnValue.eq)
        /\ returnValue.ge <=> (returnValue.gt \/ returnValue.eq)
        /\ returnValue.lt <=> LexicographicLess(arguments.lhs, arguments.rhs)

\* C26: current_gamepad_state indexes gamepad_states within bounds for every
\* joystick_id value: the index is less than the array's size.
C26_GamepadIndexInBounds ==
    (arguments.function = "current_gamepad_state" /\ returnValue # NoCall) =>
        /\ returnValue.index < GLFW_JOYSTICK_LAST
        /\ returnValue.state = "element"

\* ---------------------------------------------------------- window builder
\* An attributes::hint value and the hint lists a builder can be given.
WindowHints == [hint : HintNames, enabled : BOOLEAN]

HintLists == UNION { [1..n -> WindowHints] : n \in 0..MaxHints }

\* glfwWindowHint(hint, value)
glfwWindowHint(hints, hint, value) == [hints EXCEPT ![hint] = value]

\* window_builder::apply_hint(attributes::hint const&)
apply_hint(hints, windowHint) ==
    glfwWindowHint(hints, windowHint.hint, IF windowHint.enabled THEN GLFW_TRUE ELSE GLFW_FALSE)

\* The loop of window_builder::create over m_hints, first to last.
RECURSIVE ApplyHints(_, _)
ApplyHints(hints, m_hints) ==
    IF m_hints = << >> THEN hints
    ELSE ApplyHints(apply_hint(hints, Head(m_hints)), Tail(m_hints))

\* A create that leaves the native hints as it set them.
restore_nothing(hints) == hints

\* window_builder::restore_defaults(): glfwDefaultWindowHints()
restore_defaults(hints) == DefaultWindowHints

\* An operation on window builders or on the native window hints.
BuilderStep(op, id) ==
    /\ InApplication
    /\ lastOp' = [op |-> op, slot |-> "", id |-> id]
    /\ invoked' = << >>
    /\ fault' = FALSE
    /\ UNCHANGED << glfw_callbacks, globalSlot, lastReg, lastMask, scenario, orderVars,
                    cursorVars, functionVars, initVars, windowRefs, movedFrom >>

\* window_builder::window_builder(hint_ts&&... hints)
window_builder(b, hints) ==
    /\ ~windowBuilders[b].live
    /\ BuilderStep("window_builder::window_builder", b)
    /\ windowBuilders' = [windowBuilders EXCEPT ![b] = [live |-> TRUE, m_hints |-> hints]]
    /\ UNCHANGED << nativeHints, createdWith, nativeWindows, windowSlot, windowObjects, stale >>

\* window_builder::~window_builder(), implicitly declared
window_builder_destroy(b) ==
    /\ windowBuilders[b].live
    /\ BuilderStep("window_builder::~window_builder", b)
    /\ windowBuilders' = [windowBuilders EXCEPT ![b] = NoBuilder]
    /\ UNCHANGED << nativeHints, createdWith, nativeWindows, windowSlot, windowObjects, stale >>

\* window_builder::apply_hint called by the application itself.
window_builder_apply_hint(windowHint) ==
    /\ BuilderStep("window_builder::apply_hint", 0)
    /\ nativeHints' = apply_hint(nativeHints, windowHint)
    /\ UNCHANGED << windowBuilders, createdWith, nativeWindows, windowSlot, windowObjects, stale >>

\* window_builder::restore_defaults called by the application itself.
window_builder_restore_defaults ==
    /\ BuilderStep("window_builder::restore_defaults", 0)
    /\ nativeHints' = restore_defaults(nativeHints)
    /\ UNCHANGED << windowBuilders, createdWith, nativeWindows, windowSlot, windowObjects, stale >>

\* window_builder::create(size, title, ...): the hints are applied, the
\* window is created by window's constructor with the hints as they are
\* then, the defaults are restored, and the window is returned into o.
window_builder_create(b, o, handle) ==
    LET applied == ApplyHints(nativeHints, windowBuilders[b].m_hints) IN
    /\ windowBuilders[b].live
    /\ ~windowObjects[o].live
    /\ BuilderStep("window_builder::create", b)
    /\ glfwCreateWindow(handle)
    /\ createdWith' = applied
    /\ windowObjects' = [windowObjects EXCEPT ![o] = Holding(handle)]
    /\ nativeHints' = restore_defaults(applied)
    /\ UNCHANGED windowBuilders

\* A program that makes builders, creates windows with them and destroys
\* the windows, and sets window hints on its own.
NextBuilder ==
    \/ \E b \in Builders, hints \in HintLists : window_builder(b, hints)
    \/ \E b \in Builders : window_builder_destroy(b)
    \/ \E windowHint \in WindowHints : window_builder_apply_hint(windowHint)
    \/ window_builder_restore_defaults
    \/ \E b \in Builders, o \in WindowObjects, handle \in Windows \cup { nullptr } :
           window_builder_create(b, o, handle)
    \/ \E o \in WindowObjects : window_destroy(o)

SpecBuilder == Init /\ [][NextBuilder]_vars

\* The value a list of hints leaves a hint with: that of the last hint of
\* the list that names it, or the value it had when no hint names it.
FinalValue(hints, m_hints, name) ==
    LET named == { i \in DOMAIN m_hints : m_hints[i].hint = name } IN
    IF named = {} THEN hints[name]
    ELSE LET last == CHOOSE i \in named : \A j \in named : j <= i
         IN  IF m_hints[last].enabled THEN GLFW_TRUE ELSE GLFW_FALSE

\* C27: window_builder::create applies every stored hint, in the order
\* given, before the window is created, and restores the default hints
\* after it. The window of a create call is created with each hint at the
\* value the builder's last hint for it gives, and otherwise at the value the
\* hint had at the call; when the call returns the native hints are the
\* defaults; and a create call that follows a create call creates its window
\* with the defaults and its own builder's hints, whatever the earlier call's
\* hints were.
C27_BuilderAppliesInOrderAndRestores ==
    [][ lastOp'.op = "window_builder::create" =>
          /\ \A name \in HintNames :
                 createdWith'[name] =
                     FinalValue(nativeHints, windowBuilders[lastOp'.id].m_hints, name)
          /\ nativeHints' = DefaultWindowHints
          /\ lastOp.op = "window_builder::create" =>
                 \A name \in HintNames :
                     createdWith'[name] =
                         FinalValue(DefaultWindowHints, windowBuilders[lastOp'.id].m_hints, name)
      ]_vars

\* A builder holding two hints for the same window hint, the later one
\* different from the default, has created a window with the later value,
\* and the native hints are the defaults again.
C27_Witness ==
    /\ lastOp.op = "window_builder::create"
    /\ Len(windowBuilders[1].m_hints) = 2
    /\ windowBuilders[1].m_hints[1] = [hint |-> "VISIBLE", enabled |-> TRUE]
    /\ windowBuilders[1].m_hints[2] = [hint |-> "VISIBLE", enabled |-> FALSE]
    /\ createdWith["VISIBLE"] = GLFW_FALSE
    /\ nativeHints = DefaultWindowHints

\* ------------------------------------------------------ library instance
\* An operation of class glfw_lib.
InitStep(op) ==
    /\ LibraryStep(op, 0)
    /\ UNCHANGED << cursorVars, functionVars, builderVars >>

\* glfw_lib::init_hints(hints...): glfwInitHint for each hint given.
glfw_lib_init_hints(hint, hintEnabled) ==
    /\ InitStep("glfw_lib::init_hints")
    /\ nativeLibrary' = [nativeLibrary EXCEPT !.hints[hint] = hintEnabled]
    /\ UNCHANGED libInstance

\* A static whose initialisation counts as done whatever its constructor did.
ConstructionAlwaysCompletes(threw) == TRUE

\* static glfw_lib libInstance: the initialisation of a function-local static
\* is complete when its constructor returns; when the constructor throws it
\* is not, and the next call that reaches the declaration tries again.
ConstructionCompletes(threw) == ~threw

\* glfw_lib::init(): the first call to reach the declaration constructs
\* libInstance, whose constructor calls glfwInit and throws
\* std::runtime_error when that fails; a call after a completed
\* initialisation does nothing.
glfw_lib_init(succeeds) ==
    /\ InApplication
    /\ lastOp' = [op |-> "glfw_lib::init", slot |-> "", id |-> 0]
    /\ invoked' = << >>
    /\ IF libInstance = "constructed"
       THEN /\ succeeds
            /\ fault' = FALSE
            /\ UNCHANGED initVars
       ELSE /\ nativeLibrary.attempts < MaxInitAttempts
            /\ fault' = ~succeeds
            /\ nativeLibrary' = [nativeLibrary EXCEPT
                                    !.attempts = @ + 1,
                                    !.initialised = succeeds,
                                    !.inits = IF succeeds THEN @ + 1 ELSE @]
            /\ libInstance' = IF ConstructionCompletes(~succeeds) THEN "constructed"
                              ELSE "not constructed"
    /\ UNCHANGED << glfw_callbacks, windowSlot, globalSlot, lastReg, lastMask, scenario,
                    lifetimeVars, stale, orderVars, cursorVars, functionVars, builderVars >>

\* The program ends: the destructor of a constructed libInstance runs and
\* calls glfwTerminate.
program_exit ==
    /\ InApplication
    /\ lastOp' = [op |-> "terminated", slot |-> "", id |-> 0]
    /\ invoked' = << >>
    /\ fault' = FALSE
    /\ IF libInstance = "constructed"
       THEN /\ libInstance' = "destroyed"
            /\ nativeLibrary' = [nativeLibrary EXCEPT !.initialised = FALSE,
                                                     !.terminates = @ + 1]
       ELSE UNCHANGED initVars
    /\ UNCHANGED << glfw_callbacks, windowSlot, globalSlot, lastReg, lastMask, scenario,
                    lifetimeVars, stale, orderVars, cursorVars, functionVars, builderVars >>

\* A program that sets init hints, calls glfw_lib::init and ends.
NextInit ==
    \/ \E hint \in init_hint_type, hintEnabled \in BOOLEAN : glfw_lib_init_hints(hint, hintEnabled)
    \/ \E succeeds \in BOOLEAN : glfw_lib_init(succeeds)
    \/ program_exit

SpecInit == Init /\ [][NextInit]_vars

\* C28: library initialisation is once-only. glfwInit succeeds at most once,
\* glfwTerminate is called at most once and only after a successful
\* glfwInit. An init call in which glfwInit fails raises the error, leaves
\* the instance unconstructed and the library uninitialised and schedules
\* no glfwTerminate; and an init call made while the instance is not
\* constructed calls glfwInit, again if it failed before.
C28_InitOnceOnly ==
    /\ []( /\ nativeLibrary.inits <= 1
           /\ nativeLibrary.terminates <= nativeLibrary.inits )
    /\ [][ lastOp'.op = "glfw_lib::init" =>
             /\ fault' =>
                    /\ libInstance' = "not constructed"
                    /\ ~nativeLibrary'.initialised
                    /\ nativeLibrary'.inits = nativeLibrary.inits
                    /\ nativeLibrary'.terminates = nativeLibrary.terminates
             /\ libInstance = "not constructed" =>
                    nativeLibrary'.attempts = nativeLibrary.attempts + 1
             /\ libInstance = "constructed" => UNCHANGED initVars
         ]_vars

\* glfwInit failed in one init call, succeeded in a later one, and the
\* program has ended with one glfwTerminate.
C28_Witness ==
    /\ Terminated
    /\ nativeLibrary.attempts = 2
    /\ nativeLibrary.inits = 1
    /\ nativeLibrary.terminates = 1
    /\ libInstance = "destroyed"

====
